---- MODULE Spec2Model ----
(***************************************************************************)
(* Verification and settlement core of the x402 payment server:            *)
(*   - the EIP-2612 permit verifier and settlement dispatcher              *)
(*     (x402/src/schemes/exact/evm/permit/facilitator.ts)                  *)
(*   - the orchestrator X402Server.process: parse -> verify -> settle      *)
(*     (x402-server/src/server.ts)                                         *)
(* Every await of the code is a step boundary: between two steps of one    *)
(* call the chain may move (time passes, the owner spends, a pending       *)
(* transaction is mined) and another call may run.                         *)
(***************************************************************************)
EXTENDS Integers, Sequences, FiniteSets, TLC

(* ------------------------------ bounds -------------------------------- *)
\* the latest second of the chain clock
MaxTime == 2
\* the largest initial token balance of the owner
MaxBal == 4
\* the requirement's maxAmountRequired, in base units
MaxAmountRequired == 2

(* ----------------------------- constants ------------------------------ *)
SCHEME == "exact"
Undefined == "undefined"
Requests == {"r1", "r2"}

\* Addresses are strings; the same account written in lower case and in
\* checksum case are different strings.
Owner == "0xa11ce"
Mallory == "0xMallory"
SellerLower == "0x5e11e7"
SellerChecksum == "0x5E11e7"
OtherSpender == "0x07he7"
Asset == "0xT0ken"
TokenName == "Token"
TokenVersion == "1"
\* the network the facilitator wallet is connected to
WalletNetwork == "bsc"

\* viem getAddress: the checksum form of an address, whatever its letter case
getAddress(a) ==
  CASE a = SellerLower -> SellerChecksum
    [] a = "0xA11ce" -> "0xA11ce"
    [] a = Owner -> "0xA11ce"
    [] OTHER -> a

\* getNetworkId(network): the chain id of a known network; throws otherwise
NetworkKnown(n) == n \in {"bsc", "base"}
getNetworkId(n) == IF n = "bsc" THEN 56 ELSE 8453

(* --------------------------- typed data ------------------------------- *)
\* The EIP-712 Permit structure verify rebuilds from the payload and the
\* requirement (facilitator.ts 78-94).
PermitTypedData(name, version, chainId, verifyingContract, owner, spender, value, nonce, deadline) ==
  [ domain  |-> [name |-> name, version |-> version, chainId |-> chainId,
                 verifyingContract |-> verifyingContract],
    message |-> [owner |-> getAddress(owner), spender |-> getAddress(spender),
                 value |-> value, nonce |-> nonce, deadline |-> deadline] ]

\* A signature is the signer together with the typed data that was signed.
Sign(signer, typedData) == [signer |-> signer, signed |-> typedData]

\* client.verifyTypedData({address, ...typedData, signature})
verifyTypedData(address, typedData, signature) ==
  /\ getAddress(signature.signer) = getAddress(address)
  /\ signature.signed = typedData

(* ------------------------------ inputs -------------------------------- *)
Payload(authType, scheme, network, spender, value, deadline, signer, signedNet) ==
  [ scheme  |-> scheme,
    network |-> network,
    payload |-> [ authorizationType |-> authType,
                  signature |-> Sign(signer,
                      PermitTypedData(TokenName, TokenVersion, getNetworkId(signedNet), Asset,
                                      Owner, spender, value, 0, deadline)),
                  authorization |-> [owner |-> Owner, spender |-> spender, value |-> value,
                                     deadline |-> deadline, nonce |-> 0] ] ]

Values == (MaxAmountRequired - 1) .. (MaxAmountRequired + 1)
Deadlines == 0 .. MaxTime

\* permit payloads that pass the discriminator: every combination of the later checks
PermitPayloads ==
  { Payload("permit", SCHEME, net, sp, v, d, sg, sn) :
      net \in {"bsc", "base"}, sp \in {SellerLower, SellerChecksum, OtherSpender},
      v \in Values, d \in Deadlines, sg \in {Owner, Mallory}, sn \in {"bsc", "base"} }

\* payloads that differ in the discriminator or name an unknown network, the
\* rest either all good or all bad
DeviantPayloads ==
  { Payload(at, sc, net, sp, MaxAmountRequired, 0, sg, "bsc") :
      at \in {"permit", "eip3009"}, sc \in {SCHEME, "upto"}, net \in {"bsc", "nonet"},
      sp \in {SellerLower, OtherSpender}, sg \in {Owner, Mallory} }

NoPayload == Payload("none", "none", "none", "none", 0, 0, "none", "bsc")
HeaderOf(p) == [kind |-> "ok", payload |-> p]
Headers ==
  { [kind |-> k, payload |-> NoPayload] : k \in {"absent", "empty", "garbage", "badschema"} }
    \cup { HeaderOf(p) : p \in PermitPayloads \cup DeviantPayloads }

Requirement(scheme, withExtra) ==
  [ scheme |-> scheme, network |-> WalletNetwork, maxAmountRequired |-> MaxAmountRequired,
    payTo |-> SellerLower, asset |-> Asset,
    extra |-> IF withExtra THEN [name |-> TokenName, version |-> TokenVersion]
              ELSE [name |-> Undefined, version |-> Undefined] ]


(* ------------------------------ state --------------------------------- *)
VARIABLES
  req,      \* the PaymentRequirements every call is made with
  rq,       \* per call: its header, its position and its local variables
  now,      \* chain / wall clock, in whole seconds
  balance,  \* the owner's balance of the asset
  nonce,    \* the owner's permit nonce in the asset contract
  txs,      \* the settlement transactions submitted so far, in order
  dt,       \* the token detector: the chain facts it reads, its cache, its callers
  mw,       \* one request in the Express middleware
  cr,       \* one call of X402Server.createRequirements
  sv,       \* the schema-based X402Server
  ps,       \* one X402PaymentSchema
  ar,       \* the auto-refund resource server
  pr,       \* the requests to the permit resource server
  rec       \* one call of getRecommendedPaymentMethod: its input and its answer

\* the components apart from X402Server and its facilitator
rest == <<sv, ps, ar, pr>>
vars == <<req, rq, now, balance, nonce, txs, dt, mw, cr, rec, sv, ps, ar, pr>>

NoTx == <<>>
Unread == 0 - 1
NoObs == [sig |-> "unread", now |-> Unread, bal |-> Unread]
NoVerify == [kind |-> "none", isValid |-> FALSE, invalidReason |-> Undefined, payer |-> Undefined]
NoSettle == [kind |-> "none", success |-> FALSE, errorReason |-> Undefined,
             transaction |-> NoTx, network |-> Undefined, payer |-> Undefined]
NoStage == [success |-> FALSE, error |-> Undefined, payer |-> Undefined, txHash |-> NoTx]
NoResult == [success |-> FALSE, status |-> 0, error |-> Undefined, accepts |-> <<>>,
             payer |-> Undefined, txHash |-> NoTx]

\* a call that has not been made
Idle == [ header |-> [kind |-> "absent", payload |-> NoPayload], mode |-> "none",
          pc |-> "idle", phase |-> "none", obs |-> NoObs, obs1 |-> NoObs,
          verifyOut |-> NoVerify, verified |-> NoStage, valid |-> NoVerify,
          writes |-> 0, tx |-> 0,
          settled |-> NoSettle, result |-> NoResult ]

\* process(paymentHeader, expectedRequirements) or settle(wallet, payload, requirements)
\* has just been called
Call(mode, header) ==
  [Idle EXCEPT !.header = header, !.mode = mode,
               !.pc = IF mode = "process" THEN "parse" ELSE "s_start"]

(* ------------------------- verify, the outcomes ----------------------- *)
Valid(payer) ==
  [kind |-> "return", isValid |-> TRUE, invalidReason |-> Undefined, payer |-> payer]
Invalid(reason, payer) ==
  [kind |-> "return", isValid |-> FALSE, invalidReason |-> reason, payer |-> payer]
\* a rejected promise: the chain read failed outside the try block
Threw(message) ==
  [kind |-> "throw", isValid |-> FALSE, invalidReason |-> message, payer |-> Undefined]

RpcError == "rpc_request_failed"

\* facilitator.ts 38-47
DiscriminatorFails(p, r) ==
  \/ p.payload.authorizationType # "permit"
  \/ p.scheme # SCHEME
  \/ r.scheme # SCHEME

\* facilitator.ts 78-94: the typed data verify checks the signature against
typedDataOf(p, r) ==
  LET a == p.payload.authorization IN
  PermitTypedData(TokenName, TokenVersion, getNetworkId(p.network), r.asset,
                  a.owner, a.spender, a.value, a.nonce, a.deadline)

\* mutant: the spender is compared with payTo letter by letter
SignatureChecksRawSpender(p, r, recovered, t) ==
  LET a == p.payload.authorization IN
  IF ~recovered THEN Invalid("invalid_permit_signature", a.owner)
  ELSE IF a.deadline < t THEN Invalid("permit_expired", a.owner)
  ELSE IF a.spender # r.payTo THEN Invalid("invalid_spender_address", a.owner)
  ELSE [Valid(a.owner) EXCEPT !.kind = "continue"]

\* mutant: the deadline is checked before the signature
SignatureChecksExpiryFirst(p, r, recovered, t) ==
  LET a == p.payload.authorization IN
  IF a.deadline < t THEN Invalid("permit_expired", a.owner)
  ELSE IF ~recovered THEN Invalid("invalid_permit_signature", a.owner)
  ELSE IF getAddress(a.spender) # getAddress(r.payTo)
       THEN Invalid("invalid_spender_address", a.owner)
  ELSE [Valid(a.owner) EXCEPT !.kind = "continue"]

\* mutant: the spender is checked before the deadline
SignatureChecksSpenderFirst(p, r, recovered, t) ==
  LET a == p.payload.authorization IN
  IF ~recovered THEN Invalid("invalid_permit_signature", a.owner)
  ELSE IF getAddress(a.spender) # getAddress(r.payTo)
       THEN Invalid("invalid_spender_address", a.owner)
  ELSE IF a.deadline < t THEN Invalid("permit_expired", a.owner)
  ELSE [Valid(a.owner) EXCEPT !.kind = "continue"]

\* mutant: a deadline equal to the current second counts as passed
SignatureChecksExpiryInclusive(p, r, recovered, t) ==
  LET a == p.payload.authorization IN
  IF ~recovered THEN Invalid("invalid_permit_signature", a.owner)
  ELSE IF a.deadline <= t THEN Invalid("permit_expired", a.owner)
  ELSE IF getAddress(a.spender) # getAddress(r.payTo)
       THEN Invalid("invalid_spender_address", a.owner)
  ELSE [Valid(a.owner) EXCEPT !.kind = "continue"]

\* facilitator.ts 102-128: the checks made when verifyTypedData has answered
\* "continue" when they all pass.
SignatureChecks(p, r, recovered, t) ==
  LET a == p.payload.authorization IN
  IF ~recovered THEN Invalid("invalid_permit_signature", a.owner)
  ELSE IF a.deadline < t THEN Invalid("permit_expired", a.owner)
  ELSE IF getAddress(a.spender) # getAddress(r.payTo)
       THEN Invalid("invalid_spender_address", a.owner)
  ELSE [Valid(a.owner) EXCEPT !.kind = "continue"]

\* mutant: a signed value equal to the required amount is refused
BalanceChecksStrictValue(p, r, bal) ==
  LET a == p.payload.authorization IN
  IF bal < r.maxAmountRequired THEN Invalid("insufficient_funds", a.owner)
  ELSE IF a.value <= r.maxAmountRequired
       THEN Invalid("invalid_exact_evm_payload_authorization_value", a.owner)
  ELSE Valid(a.owner)

\* mutant: a balance equal to the required amount is refused
BalanceChecksStrictBalance(p, r, bal) ==
  LET a == p.payload.authorization IN
  IF bal <= r.maxAmountRequired THEN Invalid("insufficient_funds", a.owner)
  ELSE IF a.value < r.maxAmountRequired
       THEN Invalid("invalid_exact_evm_payload_authorization_value", a.owner)
  ELSE Valid(a.owner)

\* facilitator.ts 130-152: the checks made when the balance has been read
BalanceChecks(p, r, bal) ==
  LET a == p.payload.authorization IN
  IF bal < r.maxAmountRequired THEN Invalid("insufficient_funds", a.owner)
  ELSE IF a.value < r.maxAmountRequired
       THEN Invalid("invalid_exact_evm_payload_authorization_value", a.owner)
  ELSE Valid(a.owner)


(* ----------------------- settle, the outcomes ------------------------- *)
SettleResponse(success, errorReason, transaction, network, payer) ==
  [kind |-> "return", success |-> success, errorReason |-> errorReason,
   transaction |-> transaction, network |-> network, payer |-> payer]
\* settle rejects: an exception of verify, writeContract or
\* waitForTransactionReceipt passes through it uncaught
SettleThrew(message) ==
  [kind |-> "throw", success |-> FALSE, errorReason |-> message,
   transaction |-> NoTx, network |-> Undefined, payer |-> Undefined]

\* the hash writeContract returns for the k-th submitted transaction
HashOf(k) == <<"0x", k>>

\* facilitator.ts 183-191: settle's answer to a failed re-verification
ReverifyFailed(p, valid) ==
  SettleResponse(FALSE,
                 IF valid.invalidReason # Undefined THEN valid.invalidReason ELSE "invalid_payment",
                 NoTx, p.network, p.payload.authorization.owner)

\* mutant: the receipt's status is read the wrong way round
ReceiptResponseInverted(p, hash, status) ==
  IF status = "success"
  THEN SettleResponse(FALSE, "transaction_failed", hash, p.network, p.payload.authorization.owner)
  ELSE SettleResponse(TRUE, Undefined, hash, p.network, p.payload.authorization.owner)

\* mutant: a failed receipt is answered without the transaction's hash
ReceiptResponseNoHash(p, hash, status) ==
  IF status # "success"
  THEN SettleResponse(FALSE, "transaction_failed", NoTx, p.network, p.payload.authorization.owner)
  ELSE SettleResponse(TRUE, Undefined, hash, p.network, p.payload.authorization.owner)

\* mutant: every mined transaction is answered as a success
ReceiptResponseAlwaysSuccess(p, hash, status) ==
  SettleResponse(TRUE, Undefined, hash, p.network, p.payload.authorization.owner)

\* facilitator.ts 218-233: settle's answer to the receipt
ReceiptResponse(p, hash, status) ==
  IF status # "success"
  THEN SettleResponse(FALSE, "transaction_failed", hash, p.network, p.payload.authorization.owner)
  ELSE SettleResponse(TRUE, Undefined, hash, p.network, p.payload.authorization.owner)

(* ---------------- the Facilitator client of the server ---------------- *)
\* Facilitator.verify / Facilitator.settle hand the payload and the requirement
\* to the scheme's verify / settle and report their answer; an exception is
\* passed on.
FacilitatorVerify(out) ==
  [kind |-> out.kind, success |-> out.isValid, payer |-> out.payer, error |-> out.invalidReason]
FacilitatorSettle(out) ==
  [kind |-> out.kind, success |-> out.success, transaction |-> out.transaction,
   network |-> out.network, error |-> out.errorReason]

(* --------------------------- X402Server -------------------------------- *)
\* mutant: the 402 response lists no requirement
get402ResponseNoAccepts(requirements, error) ==
  [NoResult EXCEPT !.status = 402, !.error = error]

\* server.ts 364-370
get402Response(requirements, error) ==
  [NoResult EXCEPT !.status = 402, !.error = error, !.accepts = <<requirements>>]

\* server.ts 239-245: the message of the error that decodeBase64, JSON.parse
\* or PaymentPayloadSchema.parse throws on the header, or "none"
DecodeError(header) ==
  CASE header.kind \in {"garbage", "empty"} -> "Unexpected token"
    [] header.kind = "badschema" -> "Required"
    [] OTHER -> "none"

\* mutant: only an undefined header counts as missing
ParseErrorUndefinedOnly(header) ==
  IF header.kind = "absent" THEN "missing_payment_header"
  ELSE IF DecodeError(header) # "none" THEN "invalid_payment_header: " \o DecodeError(header)
  ELSE "none"

\* server.ts 228-264: the error parse fails with, or "none". The header is
\* absent when it is undefined or the empty string (!paymentHeader).
ParseError(header) ==
  IF header.kind \in {"absent", "empty"} THEN "missing_payment_header"
  ELSE IF DecodeError(header) # "none" THEN "invalid_payment_header: " \o DecodeError(header)
  ELSE "none"

\* !x of a string that may be undefined
Falsy(x) == x \in {Undefined, ""}

\* mutant: a verification success is passed on without looking at the payer
ServerVerifyPayerUnchecked(fr) ==
  IF fr.kind = "throw" THEN [NoStage EXCEPT !.error = fr.error]
  ELSE IF ~fr.success
       THEN [NoStage EXCEPT !.error = IF ~Falsy(fr.error) THEN fr.error
                                      ELSE "Verification failed"]
  ELSE [NoStage EXCEPT !.success = TRUE, !.payer = fr.payer]

\* server.ts 272-309
ServerVerify(fr) ==
  IF fr.kind = "throw" THEN [NoStage EXCEPT !.error = fr.error]
  ELSE IF ~fr.success
       THEN [NoStage EXCEPT !.error = IF ~Falsy(fr.error) THEN fr.error
                                      ELSE "Verification failed"]
  ELSE IF Falsy(fr.payer)
       THEN [NoStage EXCEPT !.error = "Payer address not found in verification result"]
  ELSE [NoStage EXCEPT !.success = TRUE, !.payer = fr.payer]

\* server.ts 317-355
ServerSettle(fr) ==
  IF fr.kind = "throw" THEN [NoStage EXCEPT !.error = fr.error]
  ELSE IF ~fr.success
       THEN [NoStage EXCEPT !.error = IF ~Falsy(fr.error) THEN fr.error
                                      ELSE "Settlement failed"]
  ELSE IF fr.transaction = NoTx
       THEN [NoStage EXCEPT !.error = "Transaction hash not found in settlement result"]
  ELSE [NoStage EXCEPT !.success = TRUE, !.txHash = fr.transaction]

\* server.ts 203-218: what process returns when settle has answered
ProcessAfterSettle(requirements, verified, settledStage) ==
  IF ~settledStage.success THEN get402Response(requirements, settledStage.error)
  ELSE [NoResult EXCEPT !.success = TRUE, !.status = 200,
                        !.payer = verified.payer, !.txHash = settledStage.txHash]

(* ------------------- one call, from await to await --------------------- *)
\* mutant: an exception of settle passes through process, which returns nothing
SettleReturnsUncaught(r, out) ==
  [r EXCEPT !.settled = out, !.pc = "done", !.phase = "none",
            !.result = IF r.mode = "process" /\ out.kind # "throw"
                       THEN ProcessAfterSettle(req, r.verified, ServerSettle(FacilitatorSettle(out)))
                       ELSE NoResult]

\* settle has answered `out`: a direct call is over; inside process the
\* answer goes through X402Server.settle and process returns
SettleReturns(r, out) ==
  [r EXCEPT !.settled = out, !.pc = "done", !.phase = "none",
            !.result = IF r.mode = "process"
                       THEN ProcessAfterSettle(req, r.verified, ServerSettle(FacilitatorSettle(out)))
                       ELSE NoResult]

\* facilitator.ts 168-181: settle is entered
SettleEnters(r) ==
  LET p == r.header.payload IN
  IF p.payload.authorizationType # "permit"
  THEN SettleReturns(r, SettleResponse(FALSE, "invalid_authorization_type", NoTx, p.network, ""))
  ELSE [r EXCEPT !.phase = "settle", !.pc = "v_start", !.obs = NoObs]

\* mutant: process goes on to settle whatever verify answered
ProcessAfterVerifyUnchecked(r, out) ==
  SettleEnters([r EXCEPT !.verifyOut = out, !.verified = ServerVerify(FacilitatorVerify(out)),
                         !.obs1 = r.obs])

\* server.ts 192-202: X402Server.verify has the facilitator's answer
ProcessAfterVerify(r, out) ==
  LET v == ServerVerify(FacilitatorVerify(out)) IN
  IF ~v.success
  THEN [r EXCEPT !.verifyOut = out, !.verified = v, !.obs1 = r.obs, !.pc = "done",
                 !.phase = "none", !.result = get402Response(req, v.error)]
  ELSE SettleEnters([r EXCEPT !.verifyOut = out, !.verified = v, !.obs1 = r.obs])

\* mutant: settle writes whatever its own verify answered
SettleAfterReverifyIgnored(r, out) ==
  IF out.kind = "throw" THEN SettleReturns([r EXCEPT !.valid = out], SettleThrew(out.invalidReason))
  ELSE [r EXCEPT !.valid = out, !.pc = "s_write"]

\* facilitator.ts 181-191: settle has the answer of its own verify
SettleAfterReverify(r, out) ==
  IF out.kind = "throw" THEN SettleReturns([r EXCEPT !.valid = out], SettleThrew(out.invalidReason))
  ELSE IF ~out.isValid
       THEN SettleReturns([r EXCEPT !.valid = out], ReverifyFailed(r.header.payload, out))
  ELSE [r EXCEPT !.valid = out, !.pc = "s_write"]

\* verify returns `out` to whoever called it
VerifyReturns(r, out) ==
  IF r.phase = "verify" THEN ProcessAfterVerify(r, out) ELSE SettleAfterReverify(r, out)


(* ------------------------------ the chain ------------------------------ *)
\* the chain state a transaction is executed in
NoBlock == [time |-> Unread, balance |-> Unread, nonce |-> Unread]
Block == [time |-> now, balance |-> balance, nonce |-> nonce]

\* The transaction settle submits (facilitator.ts 199-213).
SettleTx(i, p, r) ==
  LET a == p.payload.authorization IN
  [ by |-> i, to |-> r.payTo, token |-> r.asset, payer |-> a.owner, amount |-> a.value,
    deadline |-> a.deadline, signature |-> p.payload.signature, status |-> "pending",
    block |-> NoBlock ]

\* settleWithPermit on the settlement contract at payTo: permit(payer, this,
\* amount, deadline, v, r, s) on the token, then the transfer. It reverts
\* unless the signature is the owner's over the token's current nonce and
\* domain, the deadline has not passed and the balance covers the amount.
SettleWithPermitSucceeds(t) ==
  /\ verifyTypedData(t.payer,
                     PermitTypedData(TokenName, TokenVersion, getNetworkId(WalletNetwork), t.token,
                                     t.payer, t.to, t.amount, nonce, t.deadline),
                     t.signature)
  /\ t.deadline >= now
  /\ balance >= t.amount

\* a pending transaction is included in a block
Mine ==
  \E k \in 1 .. Len(txs) :
    /\ txs[k].status = "pending"
    /\ IF SettleWithPermitSucceeds(txs[k])
       THEN /\ txs' = [txs EXCEPT ![k].status = "success", ![k].block = Block]
            /\ nonce' = nonce + 1
            /\ balance' = balance - txs[k].amount
       ELSE /\ txs' = [txs EXCEPT ![k].status = "reverted", ![k].block = Block]
            /\ UNCHANGED <<rest, nonce, balance>>
    /\ UNCHANGED <<rest, dt, mw, cr, rec, req, rq, now>>

\* a second passes
Tick ==
  /\ now < MaxTime
  /\ now' = now + 1
  /\ UNCHANGED <<rest, dt, mw, cr, rec, req, rq, balance, nonce, txs>>

\* the owner moves one unit of the asset elsewhere
Spend ==
  /\ balance > 0
  /\ balance' = balance - 1
  /\ UNCHANGED <<rest, dt, mw, cr, rec, req, rq, now, nonce, txs>>

(* ------------------------------ the steps ------------------------------ *)
Step(i, r) == rq' = [rq EXCEPT ![i] = r]

\* server.ts 181-192: process parses the header and calls verify
Parse(i) ==
  /\ rq[i].pc = "parse"
  /\ Step(i, IF ParseError(rq[i].header) # "none"
             THEN [rq[i] EXCEPT !.pc = "done",
                                !.result = get402Response(req, ParseError(rq[i].header))]
             ELSE [rq[i] EXCEPT !.pc = "v_start", !.phase = "verify"])
  /\ UNCHANGED <<rest, dt, mw, cr, rec, req, now, balance, nonce, txs>>

\* facilitator.ts 163-181: settle is called directly
SettleCalled(i) ==
  /\ rq[i].pc = "s_start"
  /\ Step(i, SettleEnters(rq[i]))
  /\ UNCHANGED <<rest, dt, mw, cr, rec, req, now, balance, nonce, txs>>

\* facilitator.ts 37-47: the discriminator check
VerifyDiscriminator(i) ==
  /\ rq[i].pc = "v_start"
  /\ Step(i, IF DiscriminatorFails(rq[i].header.payload, req)
             THEN VerifyReturns(rq[i], Invalid("unsupported_scheme", Undefined))
             ELSE [rq[i] EXCEPT !.pc = "v_domain"])
  /\ UNCHANGED <<rest, dt, mw, cr, rec, req, now, balance, nonce, txs>>

\* facilitator.ts 58-75: chain id, token name and version; a failure of
\* getNetworkId or of a read is caught
VerifyDomain(i) ==
  /\ rq[i].pc = "v_domain"
  /\ LET p == rq[i].header.payload
         invalidNetwork == VerifyReturns(rq[i], Invalid("invalid_network", p.payload.authorization.owner))
     IN IF ~NetworkKnown(p.network) THEN Step(i, invalidNetwork)
        ELSE IF req.extra.name # Undefined /\ req.extra.version # Undefined
             THEN Step(i, [rq[i] EXCEPT !.pc = "v_sig"])
        ELSE \E readOk \in BOOLEAN :
               Step(i, IF readOk THEN [rq[i] EXCEPT !.pc = "v_sig"] ELSE invalidNetwork)
  /\ UNCHANGED <<rest, dt, mw, cr, rec, req, now, balance, nonce, txs>>

\* facilitator.ts 96-128: verifyTypedData answers (or the call fails), then
\* the signature, deadline and spender checks
VerifySignature(i) ==
  /\ rq[i].pc = "v_sig"
  /\ LET p == rq[i].header.payload
         recovered == verifyTypedData(p.payload.authorization.owner, typedDataOf(p, req),
                                      p.payload.signature)
         seen == [rq[i] EXCEPT !.obs.sig = IF recovered THEN "true" ELSE "false",
                               !.obs.now = now]
         out == SignatureChecks(p, req, recovered, now)
     IN \E readOk \in BOOLEAN :
          Step(i, IF ~readOk THEN VerifyReturns(rq[i], Threw(RpcError))
                  ELSE IF out.kind = "continue" THEN [seen EXCEPT !.pc = "v_bal"]
                  ELSE VerifyReturns(seen, out))
  /\ UNCHANGED <<rest, dt, mw, cr, rec, req, now, balance, nonce, txs>>

\* facilitator.ts 130-152: the balance is read (or the read fails), then the
\* balance and value checks
VerifyBalance(i) ==
  /\ rq[i].pc = "v_bal"
  /\ LET p == rq[i].header.payload
         seen == [rq[i] EXCEPT !.obs.bal = balance]
     IN \E readOk \in BOOLEAN :
          Step(i, IF ~readOk THEN VerifyReturns(rq[i], Threw(RpcError))
                  ELSE VerifyReturns(seen, BalanceChecks(p, req, balance)))
  /\ UNCHANGED <<rest, dt, mw, cr, rec, req, now, balance, nonce, txs>>

\* facilitator.ts 193-213: writeContract submits the transaction, or fails
SettleWrite(i) ==
  /\ rq[i].pc = "s_write"
  /\ \E accepted \in BOOLEAN :
       IF accepted
       THEN /\ txs' = Append(txs, SettleTx(i, rq[i].header.payload, req))
            /\ Step(i, [rq[i] EXCEPT !.pc = "s_receipt", !.writes = @ + 1,
                                     !.tx = Len(txs) + 1])
       ELSE /\ txs' = txs
            /\ Step(i, SettleReturns([rq[i] EXCEPT !.writes = @ + 1],
                                     SettleThrew("broadcast rejected")))
  /\ UNCHANGED <<rest, dt, mw, cr, rec, req, now, balance, nonce>>

\* mutant: settle submits again when the transaction reverted
SettleReceiptRetries(i) ==
  /\ rq[i].pc = "s_receipt"
  /\ LET t == txs[rq[i].tx] IN
       IF t.status = "pending"
       THEN Step(i, SettleReturns(rq[i], SettleThrew("receipt timeout")))
       ELSE IF t.status = "reverted" /\ rq[i].writes < 2
            THEN Step(i, [rq[i] EXCEPT !.pc = "s_write"])
       ELSE Step(i, SettleReturns(rq[i],
                      ReceiptResponse(rq[i].header.payload, HashOf(rq[i].tx), t.status)))
  /\ UNCHANGED <<rest, dt, mw, cr, rec, req, now, balance, nonce, txs>>

\* facilitator.ts 215-233: the receipt of the mined transaction arrives, or
\* waiting for it fails
SettleReceipt(i) ==
  /\ rq[i].pc = "s_receipt"
  /\ LET t == txs[rq[i].tx] IN
       IF t.status = "pending"
       THEN Step(i, SettleReturns(rq[i], SettleThrew("receipt timeout")))
       ELSE Step(i, SettleReturns(rq[i],
                      ReceiptResponse(rq[i].header.payload, HashOf(rq[i].tx), t.status)))
  /\ UNCHANGED <<rest, dt, mw, cr, rec, req, now, balance, nonce, txs>>

(* ------------------- the components that are not running -------------- *)
\* no detector has been constructed, no request is in the middleware, and
\* getRecommendedPaymentMethod has not been called
NoDetector == [pc |-> "none"]
NoMiddleware == [pc |-> "none"]
NoRecommend == [pc |-> "none"]
NoRequirementsCall == [pc |-> "none"]
NoSchemaServer == [pc |-> "none"]
NoSchema == [pc |-> "none"]
NoRefundServer == [pc |-> "none"]
NoResourceRequest == [pc |-> "none"]
RestIdle ==
  sv = NoSchemaServer /\ ps = NoSchema /\ ar = NoRefundServer /\ pr = NoResourceRequest
OthersIdle ==
  /\ dt = NoDetector /\ mw = NoMiddleware /\ cr = NoRequirementsCall /\ rec = NoRecommend
  /\ RestIdle

(* ------------------------- token detection ----------------------------- *)
\* token-detection.ts 320-348
EIP3009_SIGNATURES == {"0xe3ee160e", "0xcf092995"}
EIP2612_PERMIT == "0xd505accf"
PERMIT2_ADDRESS == "0x000000000022D473030F116dDEE9F6B43aC78BA3"

\* the asset's address as detectTokenPaymentMethods uses it: tokenAddress.toLowerCase()
AssetLower == "0xt0ken"
toLowerCase(a) ==
  IF a = Asset THEN AssetLower ELSE IF a = SellerChecksum THEN SellerLower ELSE a

\* A contract's bytecode is the set of four-byte strings that occur in it, in
\* lower case and without 0x; an address without code reads as undefined.
NoCode == {Undefined}
\* selector.slice(2)
slice2(selector) ==
  CASE selector = "0xe3ee160e" -> "e3ee160e"
    [] selector = "0xcf092995" -> "cf092995"
    [] selector = "0xd505accf" -> "d505accf"
\* selectors.some(s => code.toLowerCase().includes(s.slice(2).toLowerCase()))
IncludesAny(code, selectors) == \E sel \in selectors : slice2(sel) \in code

\* storage words and the address in their last 20 bytes (slice(-40))
ZeroAddress == "0x0000000000000000000000000000000000000000"
ZeroWord == "0x00..00"
HighWord == "0xff..00"
ImplA == "0x1mplA"
ImplC == "0x1mplC"
ImplEmpty == "0x1mplNoCode"
AddressOfWord(word) == IF word \in {ZeroWord, HighWord} THEN ZeroAddress ELSE word

\* the chains detection may run against: the token's bytecode, its two
\* implementation slots, the answer of implementation(), Permit2 deployed or not
ChainFacts ==
  [ code : {NoCode, {}, {"d505accf"}, {"e3ee160e"}},
    slot1967 : {ZeroWord, HighWord, ImplA},
    slot1822 : {ZeroWord, ImplEmpty},
    implCall : {ZeroAddress, ImplC},
    permit2 : BOOLEAN ]

\* client.getBytecode({address}) on the chain f
getBytecode(f, address) ==
  CASE address = AssetLower -> f.code
    [] address = ImplA -> {"d505accf", "e3ee160e"}
    [] address = ImplC -> {"cf092995"}
    [] address = PERMIT2_ADDRESS -> IF f.permit2 THEN {"permit2code"} ELSE NoCode
    [] OTHER -> NoCode

\* one capability check of a detection: where it stands, what the scan of the
\* token's own code gave, the proxy strategies tried with what each yielded,
\* the implementation resolved, what the scan of its code gave, the answer
NoImpl == "null"
NewTask ==
  [pc |-> "code", direct |-> "unread", tried |-> <<>>, outcomes |-> <<>>,
   impl |-> NoImpl, implScan |-> "unread", result |-> "pending"]
TaskDone(t, result) == [t EXCEPT !.pc = "done", !.result = result]

Strategies == <<"eip1967", "eip1822", "implementation">>

\* the strategy getImplementationAddress is at, and what it yields on chain f
StrategyAt(pc) ==
  CASE pc = "s1967" -> "eip1967" [] pc = "s1822" -> "eip1822" [] pc = "call" -> "implementation"
Yield(f, strategy) ==
  CASE strategy = "eip1967" -> AddressOfWord(f.slot1967)
    [] strategy = "eip1822" -> AddressOfWord(f.slot1822)
    [] strategy = "implementation" -> f.implCall

\* one strategy was tried and gave `outcome`: resolved when it is an address
\* other than zero, else on to `next`
Tried(t, strategy, outcome, next) ==
  LET u == [t EXCEPT !.tried = Append(@, strategy), !.outcomes = Append(@, outcome)]
  IN IF outcome \notin {"error", ZeroAddress}
     THEN [u EXCEPT !.impl = outcome, !.pc = "implcode"]
     ELSE [u EXCEPT !.pc = next]

\* mutant: the EIP-1822 slot is read before the EIP-1967 slot
getImplementationAddress1822First(t, f, ok) ==
  CASE t.pc = "s1967" -> Tried(t, "eip1822", IF ok THEN Yield(f, "eip1822") ELSE "error", "s1822")
    [] t.pc = "s1822" -> Tried(t, "eip1967", IF ok THEN Yield(f, "eip1967") ELSE "error", "call")
    [] t.pc = "call" ->
         Tried(t, "implementation", IF ok THEN Yield(f, "implementation") ELSE "error", "unresolved")

\* mutant: resolution gives up when the EIP-1967 read fails
getImplementationAddressStopsOnError(t, f, ok) ==
  LET outcome == IF ok THEN Yield(f, StrategyAt(t.pc)) ELSE "error"
  IN Tried(t, StrategyAt(t.pc), outcome,
           CASE t.pc = "s1967" -> (IF ok THEN "s1822" ELSE "unresolved")
             [] t.pc = "s1822" -> "call"
             [] t.pc = "call" -> "unresolved")

\* token-detection.ts 353-424, one read of getImplementationAddress: the
\* EIP-1967 slot, then the EIP-1822 slot, then implementation(); a read
\* that fails (ok is FALSE) or yields the zero address leads to the next
getImplementationAddress(t, f, ok) ==
  LET outcome == IF ok THEN Yield(f, StrategyAt(t.pc)) ELSE "error"
  IN Tried(t, StrategyAt(t.pc), outcome,
           CASE t.pc = "s1967" -> "s1822"
             [] t.pc = "s1822" -> "call"
             [] t.pc = "call" -> "unresolved")

\* what a scan of `code` for the selectors gives
Scan(code, selectors) ==
  IF code = NoCode THEN "nocode" ELSE IF IncludesAny(code, selectors) THEN "found" ELSE "absent"

\* mutant: a failed read of the implementation's code is not caught
hasAnyMethodUncaught(t, selectors, f, ok) ==
  CASE t.pc = "code" ->
         IF ~ok THEN TaskDone([t EXCEPT !.direct = "error"], "false")
         ELSE LET d == Scan(getBytecode(f, AssetLower), selectors)
                  u == [t EXCEPT !.direct = d]
              IN IF d = "nocode" THEN TaskDone(u, "false")
                 ELSE IF d = "found" THEN TaskDone(u, "true")
                 ELSE [u EXCEPT !.pc = "s1967"]
    [] t.pc \in {"s1967", "s1822", "call"} ->
         LET r == getImplementationAddress(t, f, ok)
         IN IF r.pc = "unresolved" THEN TaskDone(r, "false") ELSE r
    [] t.pc = "implcode" ->
         IF ~ok THEN TaskDone([t EXCEPT !.implScan = "error"], "throw")
         ELSE LET d == Scan(getBytecode(f, t.impl), selectors)
              IN TaskDone([t EXCEPT !.implScan = d], IF d = "found" THEN "true" ELSE "false")

\* mutant: the implementation behind a proxy is never looked at
hasAnyMethodSkipsProxy(t, selectors, f, ok) ==
  IF ~ok THEN TaskDone([t EXCEPT !.direct = "error"], "false")
  ELSE LET d == Scan(getBytecode(f, AssetLower), selectors)
       IN TaskDone([t EXCEPT !.direct = d], IF d = "found" THEN "true" ELSE "false")

\* token-detection.ts 473-517, one read of hasAnyMethod: the token's code,
\* then, the selectors not being in it, the proxy resolution and the
\* implementation's code; every exception is caught and answers false
hasAnyMethod(t, selectors, f, ok) ==
  CASE t.pc = "code" ->
         IF ~ok THEN TaskDone([t EXCEPT !.direct = "error"], "false")
         ELSE LET d == Scan(getBytecode(f, AssetLower), selectors)
                  u == [t EXCEPT !.direct = d]
              IN IF d = "nocode" THEN TaskDone(u, "false")
                 ELSE IF d = "found" THEN TaskDone(u, "true")
                 ELSE [u EXCEPT !.pc = "s1967"]
    [] t.pc \in {"s1967", "s1822", "call"} ->
         LET r == getImplementationAddress(t, f, ok)
         IN IF r.pc = "unresolved" THEN TaskDone(r, "false") ELSE r
    [] t.pc = "implcode" ->
         IF ~ok THEN TaskDone([t EXCEPT !.implScan = "error"], "false")
         ELSE LET d == Scan(getBytecode(f, t.impl), selectors)
              IN TaskDone([t EXCEPT !.implScan = d], IF d = "found" THEN "true" ELSE "false")

\* token-detection.ts 430-467: hasMethod is hasAnyMethod for one selector
hasMethod(t, selector, f, ok) == hasAnyMethod(t, {selector}, f, ok)

\* token-detection.ts 522-534
checkPermit2Support(t, f, ok) ==
  IF ~ok THEN TaskDone([t EXCEPT !.direct = "error"], "false")
  ELSE LET d == IF getBytecode(f, PERMIT2_ADDRESS) = NoCode THEN "nocode" ELSE "found"
       IN TaskDone([t EXCEPT !.direct = d], IF d = "found" THEN "true" ELSE "false")

\* token-detection.ts 551-555: the three checks Promise.all runs together
TaskNames == {"eip3009", "permit", "permit2"}
TaskStep(name, t, f, ok) ==
  CASE name = "eip3009" -> hasAnyMethod(t, EIP3009_SIGNATURES, f, ok)
    [] name = "permit" -> hasMethod(t, EIP2612_PERMIT, f, ok)
    [] name = "permit2" -> checkPermit2Support(t, f, ok)

\* token-detection.ts 557-588: the TokenPaymentCapabilities built from the
\* three answers; a check that rejected makes Promise.all, and detection, reject
NoCaps == [kind |-> "none"]
DetectionThrew == [kind |-> "throw"]
Capabilities(address, tasks) ==
  IF \E n \in TaskNames : tasks[n].result = "throw" THEN DetectionThrew
  ELSE LET e == tasks["eip3009"].result = "true"
           p == tasks["permit"].result = "true"
           q == tasks["permit2"].result = "true"
       IN [kind |-> "return", address |-> address,
           supportedMethods |-> (IF e THEN <<"eip3009">> ELSE <<>>)
                                  \o (IF p THEN <<"permit">> ELSE <<>>)
                                  \o (IF q THEN <<"permit2", "permit2-witness">> ELSE <<>>),
           details |-> [hasEIP3009 |-> e, hasPermit |-> p, hasPermit2Approval |-> q]]

\* supportedMethods.includes(method)
Includes(methods, method) == \E k \in 1 .. Len(methods) : methods[k] = method

\* mutant: permit2 is preferred to permit
getRecommendedPaymentMethodPermit2First(capabilities) ==
  LET supportedMethods == capabilities.supportedMethods IN
  IF Includes(supportedMethods, "eip3009") THEN "eip3009"
  ELSE IF Includes(supportedMethods, "permit2") \/ Includes(supportedMethods, "permit2-witness")
       THEN "permit2"
  ELSE IF Includes(supportedMethods, "permit") THEN "permit"
  ELSE "null"

\* token-detection.ts 596-609
getRecommendedPaymentMethod(capabilities) ==
  LET supportedMethods == capabilities.supportedMethods IN
  IF Includes(supportedMethods, "eip3009") THEN "eip3009"
  ELSE IF Includes(supportedMethods, "permit") THEN "permit"
  ELSE IF Includes(supportedMethods, "permit2") \/ Includes(supportedMethods, "permit2-witness")
       THEN "permit2"
  ELSE "null"

(* --------------------------- specifications ---------------------------- *)
\* (requirement, header) pairs: every header against requirements of the
\* scheme, a few against a requirement of another scheme
Calls ==
  { <<r, h>> : r \in { Requirement(SCHEME, e) : e \in BOOLEAN }, h \in Headers }
    \cup { <<Requirement("upto", TRUE), HeaderOf(p)>> : p \in DeviantPayloads }

Modes == {"process", "settle"}

\* one call, any input, on a chain that moves
Init ==
  /\ \E c \in Calls, m \in Modes :
       /\ m = "settle" => c[2].kind = "ok"
       /\ req = c[1]
       /\ rq = [i \in Requests |-> IF i = "r1" THEN Call(m, c[2]) ELSE Idle]
  /\ now = 0
  /\ balance \in 0 .. MaxBal
  /\ nonce = 0
  /\ txs = <<>>
  /\ OthersIdle

Next ==
  \/ \E i \in Requests : Parse(i)
  \/ \E i \in Requests : SettleCalled(i)
  \/ \E i \in Requests : VerifyDiscriminator(i)
  \/ \E i \in Requests : VerifyDomain(i)
  \/ \E i \in Requests : VerifySignature(i)
  \/ \E i \in Requests : VerifyBalance(i)
  \/ \E i \in Requests : SettleWrite(i)
  \/ \E i \in Requests : SettleReceipt(i)
  \/ Mine
  \/ Tick
  \/ Spend

Spec == Init /\ [][Next]_vars


\* payloads an honest client signs for the requirement
HonestPayloads ==
  { Payload("permit", SCHEME, WalletNetwork, sp, v, d, Owner, WalletNetwork) :
      sp \in {SellerLower}, v \in {MaxAmountRequired}, d \in {MaxTime} }

\* two calls with the same payload and requirement, running concurrently
InitConcurrent ==
  /\ \E p \in HonestPayloads, m \in Modes :
       /\ req = Requirement(SCHEME, TRUE)
       /\ rq = [i \in Requests |-> Call(m, HeaderOf(p))]
  /\ now = 0
  /\ balance \in 0 .. MaxBal
  /\ nonce = 0
  /\ txs = <<>>
  /\ OthersIdle

SpecConcurrent == InitConcurrent /\ [][Next]_vars

\* the payload a settle has succeeded with is presented a second time
Replay ==
  /\ rq["r1"].pc = "done"
  /\ rq["r1"].settled.kind = "return" /\ rq["r1"].settled.success
  /\ rq["r2"].pc = "idle"
  /\ \E m \in Modes : rq' = [rq EXCEPT !["r2"] = Call(m, rq["r1"].header)]
  /\ UNCHANGED <<rest, dt, mw, cr, rec, req, now, balance, nonce, txs>>

NextReplay ==
  \/ Next
  \/ Replay

SpecReplay == Init /\ [][NextReplay]_vars

\* the payment side at rest
PaymentIdle ==
  /\ RestIdle
  /\ req = Requirement(SCHEME, TRUE)
  /\ rq = [i \in Requests |-> Idle]
  /\ now = 0
  /\ balance = 0
  /\ nonce = 0
  /\ txs = <<>>

(* ------------------------- the TokenDetector --------------------------- *)
\* detect(address) of the detector X402Server holds: the capabilities are
\* cached under the lower-cased address, and a detection in flight for the
\* address is joined instead of started again. The detection itself is
\* detectTokenPaymentMethods.
Callers == {"d1", "d2"}
Spellings == {Asset, AssetLower}

\* the most clearCache calls in a run
MaxClears == 1

NoCaller ==
  [pc |-> "idle", addr |-> Undefined, lookup |-> "none", reads |-> 0, result |-> NoCaps,
   callSeq |-> 0, doneSeq |-> 0, callEpoch |-> 0, doneEpoch |-> 0]

Detector(facts) ==
  [pc |-> "ready", facts |-> facts, cache |-> [k \in Spellings |-> NoCaps], running |-> FALSE,
   tasks |-> [n \in TaskNames |-> NewTask], callers |-> [c \in Callers |-> NoCaller],
   seq |-> 0, epoch |-> 0, reads |-> 0]

\* mutant: the cache is never consulted
LookupIgnoresCache(cache, running, address) ==
  IF running THEN "join" ELSE "start"

\* mutant: a detection in flight is not joined
LookupIgnoresInFlight(cache, running, address) ==
  IF cache[toLowerCase(address)] # NoCaps THEN "hit" ELSE "start"

\* what detect finds for the address: a cached result, a detection in
\* flight to join, or neither
Lookup(cache, running, address) ==
  IF cache[toLowerCase(address)] # NoCaps THEN "hit"
  ELSE IF running THEN "join"
  ELSE "start"

\* the detector d after caller c has called detect(address)
DetectorCalled(d, c, address) ==
  LET found == Lookup(d.cache, d.running, address)
      called == [d.callers[c] EXCEPT !.addr = address, !.lookup = found,
                                     !.callSeq = d.seq + 1, !.callEpoch = d.epoch]
  IN IF found = "hit"
     THEN [d EXCEPT !.seq = @ + 2,
                    !.callers[c] = [called EXCEPT !.pc = "done",
                                                  !.result = d.cache[toLowerCase(address)],
                                                  !.doneSeq = d.seq + 2,
                                                  !.doneEpoch = d.epoch]]
     ELSE IF found = "join"
     THEN [d EXCEPT !.seq = @ + 1, !.callers[c] = [called EXCEPT !.pc = "waiting"]]
     ELSE [d EXCEPT !.seq = @ + 1, !.running = TRUE,
                    !.tasks = [n \in TaskNames |-> NewTask],
                    !.callers[c] = [called EXCEPT !.pc = "waiting"]]

\* detect(address) is called
DetectCalled(c) ==
  /\ dt.pc = "ready"
  /\ dt.callers[c].pc = "idle"
  /\ \E address \in Spellings : dt' = DetectorCalled(dt, c, address)
  /\ UNCHANGED <<rest, req, rq, now, balance, nonce, txs, mw, cr, rec>>

\* token-detection.ts 551-555: one of the three checks makes its next chain
\* read, which answers or fails; the read is counted for the callers that
\* started the detection
DetectionReads(n) ==
  /\ dt.pc = "ready" /\ dt.running
  /\ dt.tasks[n].pc # "done"
  /\ \E ok \in BOOLEAN :
       dt' = [dt EXCEPT !.tasks[n] = TaskStep(n, @, dt.facts, ok),
                        !.reads = @ + 1,
                        !.callers = [c \in Callers |->
                                       IF dt.callers[c].pc = "waiting" /\ dt.callers[c].lookup = "start"
                                       THEN [dt.callers[c] EXCEPT !.reads = @ + 1]
                                       ELSE dt.callers[c]]]
  /\ UNCHANGED <<rest, req, rq, now, balance, nonce, txs, mw, cr, rec>>

\* token-detection.ts 557-588: the three checks are over; the result is
\* cached and handed to every caller that waits for it
DetectionCompletes ==
  /\ dt.pc = "ready" /\ dt.running
  /\ \A n \in TaskNames : dt.tasks[n].pc = "done"
  /\ LET caps == Capabilities(AssetLower, dt.tasks)
     IN dt' = [dt EXCEPT !.running = FALSE,
                         !.cache[AssetLower] = IF caps.kind = "return" THEN caps ELSE @,
                         !.seq = @ + 1,
                         !.callers = [c \in Callers |->
                                        IF dt.callers[c].pc = "waiting"
                                        THEN [dt.callers[c] EXCEPT !.pc = "done", !.result = caps,
                                                                   !.doneSeq = dt.seq + 1,
                                                                   !.doneEpoch = dt.epoch]
                                        ELSE dt.callers[c]]]
  /\ UNCHANGED <<rest, req, rq, now, balance, nonce, txs, mw, cr, rec>>

\* server.ts 377-379: clearCache()
ClearCache ==
  /\ dt.pc = "ready"
  /\ dt.epoch < MaxClears
  /\ dt' = [dt EXCEPT !.cache = [k \in Spellings |-> NoCaps], !.epoch = @ + 1]
  /\ UNCHANGED <<rest, req, rq, now, balance, nonce, txs, mw, cr, rec>>

\* the chains the cache is exercised on: a token with permit in its own
\* code, and plain or EIP-1967 proxies, with Permit2 deployed
DetectorFacts ==
  { f \in ChainFacts : /\ f.code \in {{}, {"d505accf"}}
                       /\ f.slot1967 \in {ZeroWord, ImplA}
                       /\ f.slot1822 = ZeroWord /\ f.implCall = ZeroAddress
                       /\ f.permit2 }

\* a detector, no call made yet
InitDetector ==
  /\ PaymentIdle
  /\ mw = NoMiddleware /\ cr = NoRequirementsCall /\ rec = NoRecommend
  /\ \E f \in DetectorFacts : dt = Detector(f)

NextDetector ==
  \/ \E c \in Callers : DetectCalled(c)
  \/ \E n \in TaskNames : DetectionReads(n)
  \/ DetectionCompletes
  \/ ClearCache

SpecDetector == InitDetector /\ [][NextDetector]_vars

\* one detection, on any chain
InitDetection ==
  /\ PaymentIdle
  /\ mw = NoMiddleware /\ cr = NoRequirementsCall /\ rec = NoRecommend
  /\ \E f \in ChainFacts : dt = Detector(f)

NextDetection ==
  \/ \E c \in {"d1"} : DetectCalled(c)
  \/ \E n \in TaskNames : DetectionReads(n)
  \/ DetectionCompletes

SpecDetection == InitDetection /\ [][NextDetection]_vars

(* ------------------- X402Server.createRequirements --------------------- *)
\* server.ts 106-167. The configurations are the ones the input schema
\* accepts; the server was built without a network of its own.
AutoDetects == {"true", "false", Undefined}
PaymentTypes == {Undefined, "auto", "permit", "eip3009", "permit2"}
Configs ==
  [asset : {Asset}, maxAmountRequired : {MaxAmountRequired}, network : {Undefined, WalletNetwork},
   autoDetect : AutoDetects, paymentType : PaymentTypes]

\* server.ts 427-446: the name getNetworkName gives the chain of the client
ChainNetworkName == "bsc-mainnet"

\* the name and version detect reports for the token
DetectedTokenInfo == [name |-> TokenName, version |-> TokenVersion]
NoTokenInfo == [name |-> Undefined, version |-> Undefined]

MustSpecifyPaymentType == "Must specify paymentType when autoDetect is false"
NoAdvancedMethods == "Token does not support advanced payment methods"

NewRequirementsCall ==
  [pc |-> "idle", config |-> Undefined, network |-> Undefined, detectorCalls |-> 0,
   outcome |-> [kind |-> "none"]]

\* mutant: fast mode falls back to permit when no type is pinned
FastModeDefaultsToPermit(config) ==
  IF Falsy(config.paymentType) \/ config.paymentType = "auto"
  THEN [kind |-> "ok", paymentType |-> "permit"]
  ELSE [kind |-> "ok", paymentType |-> config.paymentType]

\* server.ts 139-142: fast mode takes the pinned payment type or throws
FastMode(config) ==
  IF Falsy(config.paymentType) \/ config.paymentType = "auto"
  THEN [kind |-> "throw", message |-> MustSpecifyPaymentType]
  ELSE [kind |-> "ok", paymentType |-> config.paymentType]

\* server.ts 146-166: the requirement that is returned
BuildRequirements(config, network, paymentType, info) ==
  [scheme |-> SCHEME, network |-> network, maxAmountRequired |-> config.maxAmountRequired,
   payTo |-> SellerLower, asset |-> config.asset, paymentType |-> paymentType,
   extra |-> [name |-> IF Falsy(info.name) THEN Undefined ELSE info.name,
              version |-> IF Falsy(info.version) THEN Undefined ELSE info.version]]

RequirementsThrew(c, message) ==
  [c EXCEPT !.pc = "done", !.outcome = [kind |-> "throw", message |-> message]]
RequirementsReturned(c, paymentType, info) ==
  [c EXCEPT !.pc = "done",
            !.outcome = [kind |-> "return",
                         requirements |-> BuildRequirements(c.config, c.network, paymentType, info)]]

\* mutant: fast mode runs the detection all the same
AfterNetworkAlwaysDetects(c, d, network) ==
  [cr |-> [c EXCEPT !.pc = "detect", !.network = network, !.detectorCalls = @ + 1],
   dt |-> DetectorCalled(d, "d1", c.config.asset)]

\* server.ts 118-143, up to the next await: with the network known, either
\* detect is called, or fast mode decides on the spot
AfterNetwork(c, d, network) ==
  IF c.config.autoDetect # "false"
  THEN [cr |-> [c EXCEPT !.pc = "detect", !.network = network, !.detectorCalls = @ + 1],
        dt |-> DetectorCalled(d, "d1", c.config.asset)]
  ELSE LET fast == FastMode(c.config)
           known == [c EXCEPT !.network = network]
       IN [cr |-> IF fast.kind = "throw" THEN RequirementsThrew(known, fast.message)
                  ELSE RequirementsReturned(known, fast.paymentType, NoTokenInfo),
           dt |-> d]

\* server.ts 106-111, up to the first await: a network that is not configured
\* is asked of the chain
RequirementsCalled(c, d, config) ==
  LET called == [c EXCEPT !.config = config]
  IN IF Falsy(config.network)
     THEN [cr |-> [called EXCEPT !.pc = "network"], dt |-> d]
     ELSE AfterNetwork(called, d, config.network)

\* createRequirements(config) is called
CreateRequirementsCalled ==
  /\ cr.pc = "idle"
  /\ \E config \in Configs :
       LET after == RequirementsCalled(cr, dt, config)
       IN cr' = after.cr /\ dt' = after.dt
  /\ UNCHANGED <<rest, req, rq, now, balance, nonce, txs, mw, rec>>

\* server.ts 111, 427-447: getChainId answers or fails
GetChainIdReturns ==
  /\ cr.pc = "network"
  /\ \E ok \in BOOLEAN :
       IF ok
       THEN LET after == AfterNetwork(cr, dt, ChainNetworkName)
            IN cr' = after.cr /\ dt' = after.dt
       ELSE cr' = RequirementsThrew(cr, "getChainId failed") /\ dt' = dt
  /\ UNCHANGED <<rest, req, rq, now, balance, nonce, txs, mw, rec>>

\* server.ts 120-126: detect has answered; a pinned type is taken, otherwise
\* the recommended method is asked for
DetectReturns ==
  /\ cr.pc = "detect"
  /\ dt.callers["d1"].pc = "done"
  /\ LET result == dt.callers["d1"].result
         pinned == ~Falsy(cr.config.paymentType) /\ cr.config.paymentType # "auto"
     IN IF result.kind = "throw"
        THEN cr' = RequirementsThrew(cr, "detect failed") /\ dt' = dt
        ELSE IF pinned
        THEN cr' = RequirementsReturned(cr, cr.config.paymentType, DetectedTokenInfo) /\ dt' = dt
        ELSE /\ cr' = [cr EXCEPT !.pc = "recommend", !.detectorCalls = @ + 1]
             /\ dt' = DetectorCalled(dt, "d2", cr.config.asset)
  /\ UNCHANGED <<rest, req, rq, now, balance, nonce, txs, mw, rec>>

\* mutant: with nothing recommended, permit is taken
AfterRecommendDefaultsToPermit(c, result) ==
  LET recommendedMethod == IF result.kind = "return"
                           THEN getRecommendedPaymentMethod(result) ELSE "null"
  IN IF result.kind = "throw" THEN RequirementsThrew(c, "detect failed")
     ELSE RequirementsReturned(c, IF recommendedMethod = "null" THEN "permit"
                                  ELSE recommendedMethod, DetectedTokenInfo)

\* server.ts 126-136: what createRequirements does with the recommendation
AfterRecommend(c, result) ==
  LET recommendedMethod == IF result.kind = "return"
                           THEN getRecommendedPaymentMethod(result) ELSE "null"
  IN IF result.kind = "throw" THEN RequirementsThrew(c, "detect failed")
     ELSE IF recommendedMethod = "null" THEN RequirementsThrew(c, NoAdvancedMethods)
     ELSE RequirementsReturned(c, recommendedMethod, DetectedTokenInfo)

\* server.ts 126: getRecommendedMethod has answered
RecommendReturns ==
  /\ cr.pc = "recommend"
  /\ dt.callers["d2"].pc = "done"
  /\ cr' = AfterRecommend(cr, dt.callers["d2"].result)
  /\ UNCHANGED <<rest, req, rq, now, balance, nonce, txs, dt, mw, rec>>

\* the chains createRequirements is exercised on: a token with nothing, one
\* with permit in its own code, with and without Permit2 deployed
RequirementsFacts ==
  { f \in ChainFacts : /\ f.code \in {{}, {"d505accf"}}
                       /\ f.slot1967 = ZeroWord /\ f.slot1822 = ZeroWord
                       /\ f.implCall = ZeroAddress }

InitRequirements ==
  /\ PaymentIdle
  /\ mw = NoMiddleware /\ rec = NoRecommend
  /\ cr = NewRequirementsCall
  /\ \E f \in RequirementsFacts : dt = Detector(f)

NextRequirements ==
  \/ CreateRequirementsCalled
  \/ GetChainIdReturns
  \/ DetectReturns
  \/ RecommendReturns
  \/ \E n \in TaskNames : DetectionReads(n)
  \/ DetectionCompletes

SpecRequirements == InitRequirements /\ [][NextRequirements]_vars

(* ----------------------- the Express middleware ----------------------- *)
\* express.ts 85-148: one request through the middleware. The options say
\* which optional callbacks are given; a callback returns or throws.
MiddlewareOptions == [getConfig : BOOLEAN, on402 : BOOLEAN, onError : BOOLEAN,
                      onPaymentSuccess : BOOLEAN]

\* what getConfig hands back: nothing, fast mode with and without a pinned
\* type, detection with a pinned type
ExtraConfigs ==
  { c \in Configs : \/ c.network = Undefined /\ c.autoDetect = Undefined /\ c.paymentType = Undefined
                    \/ c.network = WalletNetwork /\ c.autoDetect = "false"
                         /\ c.paymentType \in {Undefined, "permit"}
                    \/ c.network = WalletNetwork /\ c.autoDetect = "true" /\ c.paymentType = "permit" }
\* express.ts 93: without getConfig the extra configuration is {}
EmptyConfig ==
  [asset |-> Asset, maxAmountRequired |-> MaxAmountRequired, network |-> Undefined,
   autoDetect |-> Undefined, paymentType |-> Undefined]

\* the x-payment headers of the requests
MiddlewareHeaders ==
  { [kind |-> k, payload |-> NoPayload] : k \in {"absent", "garbage"} }
    \cup { HeaderOf(p) : p \in HonestPayloads }

NoX402 == [payer |-> Undefined, txHash |-> NoTx]
NewMiddlewareRequest(options, header) ==
  [pc |-> "idle", options |-> options, header |-> header, x402 |-> NoX402,
   nextCalls |-> 0, sent |-> <<>>, on402Calls |-> 0, onErrorCalls |-> 0,
   onPaymentSuccessCalls |-> 0, processReturned |-> FALSE, caught |-> FALSE]

\* express.ts 135-146: the catch block
Caught(m) ==
  IF m.options.onError
  THEN [m EXCEPT !.pc = "done", !.caught = TRUE, !.onErrorCalls = @ + 1]
  ELSE [m EXCEPT !.pc = "done", !.caught = TRUE, !.sent = Append(@, 500)]

\* express.ts 134: the payment is through
CallsNext(m) == [m EXCEPT !.pc = "done", !.nextCalls = @ + 1]

\* express.ts 123-134, up to the await of onPaymentSuccess
PaymentSucceeded(m, result) ==
  LET attached == [m EXCEPT !.x402 = [payer |-> result.payer, txHash |-> result.txHash]]
  IN IF m.options.onPaymentSuccess
     THEN [attached EXCEPT !.pc = "onPaymentSuccess", !.onPaymentSuccessCalls = @ + 1]
     ELSE CallsNext(attached)

\* mutant: the 402 branch does not return
AfterProcessFallsThrough(m, result, on402Throws) ==
  LET seen == [m EXCEPT !.processReturned = TRUE]
      answered == IF m.options.on402 THEN [seen EXCEPT !.on402Calls = @ + 1]
                  ELSE [seen EXCEPT !.sent = Append(@, 402)]
  IN IF ~result.success
     THEN IF m.options.on402 /\ on402Throws THEN Caught(answered)
          ELSE PaymentSucceeded(answered, result)
     ELSE PaymentSucceeded(seen, result)

\* express.ts 108-134: process has answered
AfterProcess(m, result, on402Throws) ==
  LET seen == [m EXCEPT !.processReturned = TRUE]
  IN IF ~result.success
     THEN IF m.options.on402
          THEN IF on402Throws THEN Caught([seen EXCEPT !.on402Calls = @ + 1])
               ELSE [seen EXCEPT !.pc = "done", !.on402Calls = @ + 1]
          ELSE [seen EXCEPT !.pc = "done", !.sent = Append(@, 402)]
     ELSE PaymentSucceeded(seen, result)

\* express.ts 86-104: the middleware is entered; getToken, getAmount and
\* getConfig return or one of them throws, then createRequirements is called
MiddlewareCalled ==
  /\ mw.pc = "idle"
  /\ \/ /\ mw' = Caught(mw)
        /\ UNCHANGED <<rest, cr, dt>>
     \/ \E config \in IF mw.options.getConfig THEN ExtraConfigs ELSE {EmptyConfig} :
          LET after == RequirementsCalled(cr, dt, config)
          IN /\ mw' = [mw EXCEPT !.pc = "createRequirements"]
             /\ cr' = after.cr /\ dt' = after.dt
  /\ UNCHANGED <<rest, req, rq, now, balance, nonce, txs, rec>>

\* express.ts 100-108: createRequirements has thrown, or has returned the
\* requirements process is called with
RequirementsReturn ==
  /\ mw.pc = "createRequirements"
  /\ cr.pc = "done"
  /\ IF cr.outcome.kind = "throw"
     THEN mw' = Caught(mw) /\ UNCHANGED <<rest, req, rq>>
     ELSE /\ mw' = [mw EXCEPT !.pc = "process"]
          /\ req' = cr.outcome.requirements
          /\ rq' = [rq EXCEPT !["r1"] = Call("process", mw.header)]
  /\ UNCHANGED <<rest, now, balance, nonce, txs, dt, cr, rec>>

\* express.ts 108-134
ProcessReturns ==
  /\ mw.pc = "process"
  /\ rq["r1"].pc = "done"
  /\ \E on402Throws \in BOOLEAN : mw' = AfterProcess(mw, rq["r1"].result, on402Throws)
  /\ UNCHANGED <<rest, req, rq, now, balance, nonce, txs, dt, cr, rec>>

\* express.ts 129-134: onPaymentSuccess returns or throws
OnPaymentSuccessReturns ==
  /\ mw.pc = "onPaymentSuccess"
  /\ \E ok \in BOOLEAN : mw' = IF ok THEN CallsNext(mw) ELSE Caught(mw)
  /\ UNCHANGED <<rest, req, rq, now, balance, nonce, txs, dt, cr, rec>>

\* the token the middleware is exercised on has permit in its own code
MiddlewareFacts ==
  { f \in RequirementsFacts : f.code = {"d505accf"} /\ ~f.permit2 }

InitMiddleware ==
  /\ RestIdle
  /\ req = Requirement(SCHEME, TRUE)
  /\ rq = [i \in Requests |-> Idle]
  /\ now = 0
  /\ balance \in {0, MaxAmountRequired}
  /\ nonce = 0
  /\ txs = <<>>
  /\ rec = NoRecommend
  /\ cr = NewRequirementsCall
  /\ \E f \in MiddlewareFacts : dt = Detector(f)
  /\ \E options \in MiddlewareOptions, header \in MiddlewareHeaders :
       mw = NewMiddlewareRequest(options, header)

NextMiddleware ==
  \/ MiddlewareCalled
  \/ GetChainIdReturns
  \/ DetectReturns
  \/ RecommendReturns
  \/ \E n \in TaskNames : DetectionReads(n)
  \/ DetectionCompletes
  \/ RequirementsReturn
  \/ \E i \in {"r1"} : Parse(i)
  \/ \E i \in {"r1"} : VerifyDiscriminator(i)
  \/ \E i \in {"r1"} : VerifyDomain(i)
  \/ \E i \in {"r1"} : VerifySignature(i)
  \/ \E i \in {"r1"} : VerifyBalance(i)
  \/ \E i \in {"r1"} : SettleWrite(i)
  \/ \E i \in {"r1"} : SettleReceipt(i)
  \/ Mine
  \/ ProcessReturns
  \/ OnPaymentSuccessReturns

SpecMiddleware == InitMiddleware /\ [][NextMiddleware]_vars

(* --------------------- the schema-based X402Server --------------------- *)
\* part_008, the X402Server built on an X402PaymentSchema, in its first
\* version (61-330) and its later one (469-900). schemaValid says whether
\* schema.verify() passes; succeeded records that an initialize has
\* returned success.
Versions == {"first", "later"}
Initializers == {"i1", "i2"}
PaymentOps == {"verifyPayment", "settle"}
NotInitialized == "Server not initialized. Please call initialize() first."

NoInitialize == [pc |-> "idle", check |-> "none", result |-> "none"]
NoPaymentOp ==
  [pc |-> "idle", initializedAtCall |-> FALSE, succeededAtCall |-> FALSE,
   facilitatorCalled |-> FALSE, success |-> FALSE, error |-> Undefined]
SchemaServer(version, schemaValid) ==
  [pc |-> "ready", version |-> version, schemaValid |-> schemaValid, initialized |-> FALSE,
   succeeded |-> FALSE, relayerSet |-> FALSE,
   inits |-> [k \in Initializers |-> NoInitialize],
   ops |-> [o \in PaymentOps |-> NoPaymentOp]]

InitializeFailed(s, k) ==
  [s EXCEPT !.inits[k].pc = "done", !.inits[k].result = "failure"]
InitializeSucceeded(s, k) ==
  [s EXCEPT !.initialized = TRUE, !.succeeded = TRUE,
            !.inits[k].pc = "done", !.inits[k].result = "success"]

\* mutant: the flag is raised on entry, before the checks
InitializeEntersFlagFirst(s, k) ==
  LET called == [s EXCEPT !.inits[k] = [NoInitialize EXCEPT !.pc = "called"], !.initialized = TRUE]
  IN IF ~s.schemaValid THEN InitializeFailed(called, k)
     ELSE IF s.version = "first"
     THEN InitializeSucceeded([called EXCEPT !.relayerSet = TRUE], k)
     ELSE [called EXCEPT !.inits[k].pc = "tokenInfo"]

\* part_008 76-97 and 411-421, up to the first await: schema.verify()
\* throws on an invalid schema; the first version then sets the relayer and
\* the flag, the later one goes on to read the token's name and version
InitializeEnters(s, k) ==
  LET called == [s EXCEPT !.inits[k] = [NoInitialize EXCEPT !.pc = "called"]]
  IN IF ~s.schemaValid THEN InitializeFailed(called, k)
     ELSE IF s.version = "first"
     THEN InitializeSucceeded([called EXCEPT !.relayerSet = TRUE], k)
     ELSE [called EXCEPT !.inits[k].pc = "tokenInfo"]

\* part_008 442-451: what initialize does with the answer of _verify
AfterConfigCheck(s, k, passed) ==
  LET checked == [s EXCEPT !.inits[k].check = IF passed THEN "passed" ELSE "failed"]
  IN IF passed THEN InitializeSucceeded(checked, k) ELSE InitializeFailed(checked, k)

\* mutant: the operation goes to the facilitator without looking at the flag
PaymentEntersUnguarded(s, o) ==
  [s EXCEPT !.ops[o] = [NoPaymentOp EXCEPT !.pc = "facilitator",
                                           !.initializedAtCall = s.initialized,
                                           !.succeededAtCall = s.succeeded,
                                           !.facilitatorCalled = TRUE]]

\* part_008 617-629 and 665-680: settle and verifyPayment look at the flag
\* before they call the facilitator
PaymentEnters(s, o) ==
  LET called == [NoPaymentOp EXCEPT !.initializedAtCall = s.initialized,
                                    !.succeededAtCall = s.succeeded]
  IN IF ~s.initialized
     THEN [s EXCEPT !.ops[o] = [called EXCEPT !.pc = "done", !.error = NotInitialized]]
     ELSE [s EXCEPT !.ops[o] = [called EXCEPT !.pc = "facilitator", !.facilitatorCalled = TRUE]]

\* part_008 631-655 and 681-698: the facilitator's answer, or its exception,
\* becomes the result
PaymentAnswered(s, o, answer) ==
  [s EXCEPT !.ops[o].pc = "done", !.ops[o].success = (answer = "success"),
            !.ops[o].error = IF answer = "success" THEN Undefined ELSE answer]

Frame == UNCHANGED <<req, rq, now, balance, nonce, txs, dt, mw, cr, rec>>

\* initialize() is called
InitializeCalled(k) ==
  /\ sv.inits[k].pc \in {"idle", "done"}
  /\ sv' = InitializeEnters(sv, k)
  /\ Frame /\ UNCHANGED <<ps, ar, pr>>

\* part_008 422-440: getTokenInfo answers or fails; either way the relayer
\* is set and _verify is called
TokenInfoReturns(k) ==
  /\ sv.inits[k].pc = "tokenInfo"
  /\ sv' = [sv EXCEPT !.relayerSet = TRUE, !.inits[k].pc = "check"]
  /\ Frame /\ UNCHANGED <<ps, ar, pr>>

\* part_008 468-608: _verify answers, with errors or without
ConfigCheckReturns(k) ==
  /\ sv.inits[k].pc = "check"
  /\ \E passed \in BOOLEAN : sv' = AfterConfigCheck(sv, k, passed)
  /\ Frame /\ UNCHANGED <<ps, ar, pr>>

\* verifyPayment or settle is called
PaymentCalled(o) ==
  /\ sv.ops[o].pc \in {"idle", "done"}
  /\ sv' = PaymentEnters(sv, o)
  /\ Frame /\ UNCHANGED <<ps, ar, pr>>

FacilitatorAnswers(o) ==
  /\ sv.ops[o].pc = "facilitator"
  /\ \E answer \in {"success", "failure", "exception"} : sv' = PaymentAnswered(sv, o, answer)
  /\ Frame /\ UNCHANGED <<ps, ar, pr>>

InitSchemaServer ==
  /\ req = Requirement(SCHEME, TRUE)
  /\ rq = [i \in Requests |-> Idle]
  /\ now = 0 /\ balance = 0 /\ nonce = 0 /\ txs = <<>>
  /\ dt = NoDetector /\ mw = NoMiddleware /\ cr = NoRequirementsCall /\ rec = NoRecommend
  /\ ps = NoSchema /\ ar = NoRefundServer /\ pr = NoResourceRequest
  /\ \E version \in Versions, schemaValid \in BOOLEAN : sv = SchemaServer(version, schemaValid)

NextSchemaServer ==
  \/ \E k \in Initializers : InitializeCalled(k)
  \/ \E k \in Initializers : TokenInfoReturns(k)
  \/ \E k \in Initializers : ConfigCheckReturns(k)
  \/ \E o \in PaymentOps : PaymentCalled(o)
  \/ \E o \in PaymentOps : FacilitatorAnswers(o)

SpecSchemaServer == InitSchemaServer /\ [][NextSchemaServer]_vars

(* ------------------ X402Server.parsePaymentHeader ---------------------- *)
\* part_008 778-897. A header is absent, is text JSON.parse rejects, is the
\* JSON null, or decodes to an object; of the object the fields the
\* validation reads are kept. authorization.value is absent, the number 0,
\* a string of digits, or another string; authorization.to is absent, a
\* string, or a number.
Relayer == "0x4e1a7e4"
NoField == [kind |-> "absent"]
AuthorizationValues ==
  {NoField, [kind |-> "zero"], [kind |-> "text"]}
    \cup { [kind |-> "digits", n |-> n] : n \in 1 .. MaxAmountRequired }
AuthorizationTos ==
  {NoField, [kind |-> "number"]}
    \cup { [kind |-> "string", s |-> a] : a \in {SellerLower, SellerChecksum, Relayer, OtherSpender} }
SchemaPayloads ==
  [ scheme : {SCHEME, "upto"}, network : {WalletNetwork, "base"}, hasPayload : BOOLEAN,
    value : AuthorizationValues, to : AuthorizationTos ]
NoSchemaPayload ==
  [scheme |-> "none", network |-> "none", hasPayload |-> FALSE, value |-> NoField, to |-> NoField]
SchemaHeaders ==
  { [kind |-> k, payload |-> NoSchemaPayload] : k \in {"absent", "garbage", "null"} }
    \cup { [kind |-> "object", payload |-> p] : p \in SchemaPayloads }

\* schema.toJSON(): the server's requirements, the relayer in extra or not
SchemaRequirements(withRelayer) ==
  [scheme |-> SCHEME, network |-> WalletNetwork, maxAmountRequired |-> MaxAmountRequired,
   payTo |-> SellerChecksum, asset |-> Asset,
   extra |-> [relayer |-> IF withRelayer THEN Relayer ELSE Undefined]]

\* JavaScript truth of authorization.value and authorization.to
Truthy(field) == field.kind \notin {"absent", "zero"}

ParseFailure(requirements, error) ==
  [kind |-> "return", success |-> FALSE, data |-> requirements, error |-> error]
ParseSuccess(payload, requirements) ==
  [kind |-> "return", success |-> TRUE,
   data |-> [paymentPayload |-> payload, paymentRequirements |-> requirements],
   error |-> Undefined]
\* an exception that leaves parsePaymentHeader
ParseThrew(error) == [kind |-> "throw", success |-> FALSE, data |-> Undefined, error |-> error]

\* part_008 846-897: null when the payload agrees with the requirements, the
\* error text otherwise; BigInt of a string that is no integer throws, and
\* so does toLowerCase of a value that is no string
validatePaymentPayload(p, r) ==
  IF p.scheme # r.scheme THEN [kind |-> "return", error |-> "Scheme mismatch"]
  ELSE IF p.network # r.network THEN [kind |-> "return", error |-> "Network mismatch"]
  ELSE IF ~p.hasPayload THEN [kind |-> "return", error |-> "null"]
  ELSE IF Truthy(p.value) /\ p.value.kind = "text"
  THEN [kind |-> "throw", error |-> "SyntaxError: Cannot convert to a BigInt"]
  ELSE IF Truthy(p.value) /\ p.value.n # r.maxAmountRequired
  THEN [kind |-> "return", error |-> "Payment amount error"]
  ELSE IF Truthy(p.to) /\ p.to.kind = "number"
  THEN [kind |-> "throw", error |-> "TypeError: toLowerCase is not a function"]
  ELSE IF /\ Truthy(p.to)
          /\ toLowerCase(p.to.s) # toLowerCase(r.payTo)
          /\ (r.extra.relayer = Undefined \/ toLowerCase(p.to.s) # toLowerCase(r.extra.relayer))
  THEN [kind |-> "return", error |-> "PayTo address mismatch"]
  ELSE [kind |-> "return", error |-> "null"]

\* part_008 778-838
parsePaymentHeader(header, requirements) ==
  IF header.kind = "absent" THEN ParseFailure(requirements, "No X-PAYMENT header")
  ELSE IF header.kind = "garbage" THEN ParseFailure(requirements, "Invalid payment header format")
  ELSE IF header.kind = "null"
  THEN ParseThrew("TypeError: Cannot read properties of null")
  ELSE LET validationError == validatePaymentPayload(header.payload, requirements)
       IN IF validationError.kind = "throw" THEN ParseThrew(validationError.error)
          ELSE IF validationError.error # "null"
          THEN ParseFailure(requirements, validationError.error)
          ELSE ParseSuccess(header.payload, requirements)

\* parsePaymentHeader is called with any header, on a server whose schema
\* has the relayer or not
InitParseHeader ==
  /\ req = Requirement(SCHEME, TRUE)
  /\ rq = [i \in Requests |-> Idle]
  /\ now = 0 /\ balance = 0 /\ nonce = 0 /\ txs = <<>>
  /\ dt = NoDetector /\ mw = NoMiddleware /\ cr = NoRequirementsCall /\ rec = NoRecommend
  /\ ps = NoSchema /\ ar = NoRefundServer /\ pr = NoResourceRequest
  /\ \E header \in SchemaHeaders, withRelayer \in BOOLEAN :
       sv = [pc |-> "parse", header |-> header,
             requirements |-> SchemaRequirements(withRelayer), result |-> [kind |-> "none"]]

ParsePaymentHeaderReturns ==
  /\ sv.pc = "parse"
  /\ sv' = [sv EXCEPT !.pc = "parsed", !.result = parsePaymentHeader(sv.header, sv.requirements)]
  /\ Frame /\ UNCHANGED <<ps, ar, pr>>

NextParseHeader == ParsePaymentHeaderReturns

SpecParseHeader == InitParseHeader /\ [][NextParseHeader]_vars

(* -------------------------- X402PaymentSchema -------------------------- *)
\* packages/README.md 259-335, with the configuration schema of part_007
\* 43-61. Of the configuration the fields scheme, maxAmountRequired,
\* paymentType and extra are kept; a value is of the type the schema asks
\* for or of another.
AmountString == "100000"
AmountNumber == "number 100000"
SchemaKeys == {"scheme", "maxAmountRequired", "paymentType"}
SchemaValues(key) ==
  CASE key = "scheme" -> {SCHEME, "upto"}
    [] key = "maxAmountRequired" -> {AmountString, AmountNumber}
    [] key = "paymentType" -> {Undefined, "permit", "eip3009", "permit2", "bogus"}
ExtraKeys == {"relayer", "name"}
NoExtra == [defined |-> FALSE, keys |-> {}]
SchemaConfigs ==
  [ scheme : SchemaValues("scheme"), maxAmountRequired : SchemaValues("maxAmountRequired"),
    paymentType : SchemaValues("paymentType"), extra : {NoExtra} ]

\* part_007 43-61: X402PaymentSchemaConfigSchema.parse(config) passes
SchemaAccepts(config) ==
  /\ config.scheme = SCHEME
  /\ config.maxAmountRequired = AmountString
  /\ config.paymentType \in {Undefined, "permit", "eip3009", "permit2"}

NoSchemaCall == [op |-> "none", kind |-> "none", before |-> Undefined]
SchemaCall(op, threw, before) ==
  [op |-> op, kind |-> IF threw THEN "throw" ELSE "return", before |-> before]

\* README.md 288-294: set stores the value, then verifies
SchemaSet(schema, key, value) ==
  LET config == [schema.config EXCEPT ![key] = value]
  IN [schema EXCEPT !.config = config,
                    !.last = SchemaCall("set", ~SchemaAccepts(config), schema.config)]

\* README.md 262-266: the constructor keeps a configuration that parses
SchemaConstructed ==
  /\ ps.pc = "new"
  /\ ps' = IF SchemaAccepts(ps.config)
           THEN [ps EXCEPT !.pc = "ready", !.last = SchemaCall("constructor", FALSE, ps.config)]
           ELSE [ps EXCEPT !.pc = "failed", !.last = SchemaCall("constructor", TRUE, ps.config)]
  /\ Frame /\ UNCHANGED <<sv, ar, pr>>

\* README.md 272-283: verify()
SchemaVerifyCalled ==
  /\ ps.pc = "ready"
  /\ ps' = [ps EXCEPT !.last = SchemaCall("verify", ~SchemaAccepts(ps.config), ps.config)]
  /\ Frame /\ UNCHANGED <<sv, ar, pr>>

SchemaSetCalled ==
  /\ ps.pc = "ready"
  /\ \E key \in SchemaKeys : \E value \in SchemaValues(key) : ps' = SchemaSet(ps, key, value)
  /\ Frame /\ UNCHANGED <<sv, ar, pr>>

\* README.md 320-325: setExtra merges into extra
SchemaSetExtraCalled ==
  /\ ps.pc = "ready"
  /\ \E keys \in SUBSET ExtraKeys :
       ps' = [ps EXCEPT !.config.extra = [defined |-> TRUE, keys |-> @.keys \cup keys],
                        !.last = SchemaCall("setExtra", FALSE, ps.config)]
  /\ Frame /\ UNCHANGED <<sv, ar, pr>>

InitSchema ==
  /\ req = Requirement(SCHEME, TRUE)
  /\ rq = [i \in Requests |-> Idle]
  /\ now = 0 /\ balance = 0 /\ nonce = 0 /\ txs = <<>>
  /\ dt = NoDetector /\ mw = NoMiddleware /\ cr = NoRequirementsCall /\ rec = NoRecommend
  /\ sv = NoSchemaServer /\ ar = NoRefundServer /\ pr = NoResourceRequest
  /\ \E config \in SchemaConfigs : ps = [pc |-> "new", config |-> config, last |-> NoSchemaCall]

NextSchema ==
  \/ SchemaConstructed
  \/ SchemaVerifyCalled
  \/ SchemaSetCalled
  \/ SchemaSetExtraCalled

SpecSchema == InitSchema /\ [][NextSchema]_vars

(* --------------------- the auto-refund server -------------------------- *)
\* erc20-autoRefund/resource.ts 299-464. The payments table holds two
\* records, in the order of their creation; the timer starts runs of
\* verifyPendingPayments, a new one whether or not the last one is over.
PaymentOrder == <<"p1", "p2">>
PaymentIds == {"p1", "p2"}
Runs == {"t1", "t2"}

\* a record as insertPaymentRecord leaves it
NewPaymentRecord ==
  [verified |-> FALSE, refund_status |-> "pending", transfers |-> 0]
NoRun == [pc |-> "idle", list |-> <<>>, k |-> 0, statusAtCall |-> "none"]
RefundServer ==
  [pc |-> "running", payments |-> [id \in PaymentIds |-> NewPaymentRecord],
   runs |-> [r \in Runs |-> NoRun]]

\* resource.ts 380-386 and 416-424: the two SELECT statements
Unverified(a) == SelectSeq(PaymentOrder, LAMBDA id : ~a.payments[id].verified)
ToRefund(a) ==
  SelectSeq(PaymentOrder,
            LAMBDA id : a.payments[id].verified /\ a.payments[id].refund_status = "pending")

\* resource.ts 299-317
updateRefundStatus(a, id, status) == [a EXCEPT !.payments[id].refund_status = status]

\* resource.ts 322-339: refundPayment is entered for the k-th record of the
\* run's list and calls writeContract
RefundEnters(a, r, k) ==
  [a EXCEPT !.runs[r].pc = "write", !.runs[r].k = k,
            !.runs[r].statusAtCall = a.payments[a.runs[r].list[k]].refund_status]

\* resource.ts 415-433: the records to refund are selected and the first
\* one is refunded, or there is none and the run is over
StartRefunds(a, r) ==
  LET list == ToRefund(a)
      listed == [a EXCEPT !.runs[r].list = list]
  IN IF list = <<>> THEN [listed EXCEPT !.runs[r].pc = "done"]
     ELSE RefundEnters(listed, r, 1)

\* resource.ts 375-397: a run starts; the unverified records are selected
\* and the first one is verified, or there is none
RunStarts(a, r) ==
  LET list == Unverified(a)
  IN IF list = <<>> THEN StartRefunds(a, r)
     ELSE [a EXCEPT !.runs[r].pc = "verify", !.runs[r].list = list, !.runs[r].k = 1]

\* resource.ts 397-411: verifyTransactionAmount gave the amount or null
AfterVerification(a, r, found) ==
  LET id == a.runs[r].list[a.runs[r].k]
      b == IF found THEN [a EXCEPT !.payments[id].verified = TRUE] ELSE a
  IN IF a.runs[r].k < Len(a.runs[r].list)
     THEN [b EXCEPT !.runs[r].k = @ + 1]
     ELSE StartRefunds(b, r)

\* resource.ts 335-346, 363-369: writeContract gave the hash of the transfer
\* it submitted, or threw
AfterWrite(a, r, sent) ==
  LET id == a.runs[r].list[a.runs[r].k]
  IN IF sent
     THEN [updateRefundStatus(a, id, "processing")
             EXCEPT !.payments[id].transfers = @ + 1, !.runs[r].pc = "receipt"]
     ELSE [updateRefundStatus(a, id, "failed") EXCEPT !.runs[r].pc = "delay"]

\* resource.ts 348-369: the receipt says success or reverted, or waiting
\* for it threw
AfterReceipt(a, r, outcome) ==
  LET id == a.runs[r].list[a.runs[r].k]
  IN [updateRefundStatus(a, id, IF outcome = "success" THEN "completed" ELSE "failed")
        EXCEPT !.runs[r].pc = "delay"]

\* resource.ts 429-453: after the delay the next record of the list is
\* refunded, or the run is over
AfterDelay(a, r) ==
  IF a.runs[r].k < Len(a.runs[r].list) THEN RefundEnters(a, r, a.runs[r].k + 1)
  ELSE [a EXCEPT !.runs[r].pc = "done"]

\* resource.ts 460-464: the timer fires
TimerFires(r) ==
  /\ ar.runs[r].pc = "idle"
  /\ ar' = RunStarts(ar, r)
  /\ Frame /\ UNCHANGED <<sv, ps, pr>>

VerificationReturns(r) ==
  /\ ar.runs[r].pc = "verify"
  /\ \E found \in BOOLEAN : ar' = AfterVerification(ar, r, found)
  /\ Frame /\ UNCHANGED <<sv, ps, pr>>

RefundWriteReturns(r) ==
  /\ ar.runs[r].pc = "write"
  /\ \E sent \in BOOLEAN : ar' = AfterWrite(ar, r, sent)
  /\ Frame /\ UNCHANGED <<sv, ps, pr>>

RefundReceiptReturns(r) ==
  /\ ar.runs[r].pc = "receipt"
  /\ \E outcome \in {"success", "reverted", "exception"} : ar' = AfterReceipt(ar, r, outcome)
  /\ Frame /\ UNCHANGED <<sv, ps, pr>>

DelayOver(r) ==
  /\ ar.runs[r].pc = "delay"
  /\ ar' = AfterDelay(ar, r)
  /\ Frame /\ UNCHANGED <<sv, ps, pr>>

InitRefundServer ==
  /\ req = Requirement(SCHEME, TRUE)
  /\ rq = [i \in Requests |-> Idle]
  /\ now = 0 /\ balance = 0 /\ nonce = 0 /\ txs = <<>>
  /\ dt = NoDetector /\ mw = NoMiddleware /\ cr = NoRequirementsCall /\ rec = NoRecommend
  /\ sv = NoSchemaServer /\ ps = NoSchema /\ pr = NoResourceRequest
  /\ ar = RefundServer

NextRefundServer ==
  \/ \E r \in Runs : TimerFires(r)
  \/ \E r \in Runs : VerificationReturns(r)
  \/ \E r \in Runs : RefundWriteReturns(r)
  \/ \E r \in Runs : RefundReceiptReturns(r)
  \/ \E r \in Runs : DelayOver(r)

SpecRefundServer == InitRefundServer /\ [][NextRefundServer]_vars

(* ------------------- the permit resource server ------------------------ *)
\* part_006 59-146: POST /protected-resource. The facilitator is a service
\* reached over HTTP; what it answers to /verify and /settle is drawn from
\* the answers it can give, a failed request included.
ResourceRequests == {"q1", "q2"}
ResourceHeaders == {"absent", "garbage", "payload"}
NoAnswer == "none"
VerifyResponses == {"valid", "invalid", "empty", "exception"}
SettleResponses == {"success", "failure", "exception"}

NewResourceRequest(header) ==
  [pc |-> "received", header |-> header, verification |-> NoAnswer, settlement |-> NoAnswer,
   status |-> 0, resource |-> FALSE]

\* c.json(body, status): the request is answered
Responds(q, status, resource) ==
  [q EXCEPT !.pc = "answered", !.status = status, !.resource = resource]

\* part_006 61-101: without a header 402, with one that does not decode 400,
\* otherwise the payment goes to /verify
ResourceEnters(q) ==
  IF q.header = "absent" THEN Responds(q, 402, FALSE)
  ELSE IF q.header = "garbage" THEN Responds(q, 400, FALSE)
  ELSE [q EXCEPT !.pc = "verify"]

\* part_006 97-122: /verify has answered
AfterResourceVerify(q, answer) ==
  LET v == [q EXCEPT !.verification = answer]
  IN IF answer = "exception" THEN Responds(v, 500, FALSE)
     ELSE IF answer # "valid" THEN Responds(v, 402, FALSE)
     ELSE [v EXCEPT !.pc = "settle"]

\* part_006 124-146: /settle has answered
AfterResourceSettle(q, answer) ==
  LET v == [q EXCEPT !.settlement = answer]
  IN IF answer = "exception" THEN Responds(v, 500, FALSE)
     ELSE Responds(v, 200, TRUE)

ResourceRequested(i) ==
  /\ pr[i].pc = "received"
  /\ pr' = [pr EXCEPT ![i] = ResourceEnters(@)]
  /\ Frame /\ UNCHANGED <<sv, ps, ar>>

ResourceVerifyAnswers(i) ==
  /\ pr[i].pc = "verify"
  /\ \E answer \in VerifyResponses : pr' = [pr EXCEPT ![i] = AfterResourceVerify(@, answer)]
  /\ Frame /\ UNCHANGED <<sv, ps, ar>>

ResourceSettleAnswers(i) ==
  /\ pr[i].pc = "settle"
  /\ \E answer \in SettleResponses : pr' = [pr EXCEPT ![i] = AfterResourceSettle(@, answer)]
  /\ Frame /\ UNCHANGED <<sv, ps, ar>>

InitResource ==
  /\ req = Requirement(SCHEME, TRUE)
  /\ rq = [i \in Requests |-> Idle]
  /\ now = 0 /\ balance = 0 /\ nonce = 0 /\ txs = <<>>
  /\ dt = NoDetector /\ mw = NoMiddleware /\ cr = NoRequirementsCall /\ rec = NoRecommend
  /\ sv = NoSchemaServer /\ ps = NoSchema /\ ar = NoRefundServer
  /\ pr \in [ResourceRequests -> { NewResourceRequest(h) : h \in ResourceHeaders }]

NextResource ==
  \/ \E i \in ResourceRequests : ResourceRequested(i)
  \/ \E i \in ResourceRequests : ResourceVerifyAnswers(i)
  \/ \E i \in ResourceRequests : ResourceSettleAnswers(i)

SpecResource == InitResource /\ [][NextResource]_vars

(* ----------------- getRecommendedPaymentMethod on its own -------------- *)
\* token-detection.ts 297: type PaymentMethod
PaymentMethods == {"eip3009", "permit", "permit2", "permit2-witness"}

\* every list of payment methods without repetition, in any order
MethodLists ==
  { m \in UNION { [1 .. n -> PaymentMethods] : n \in 0 .. Cardinality(PaymentMethods) } :
      \A j, k \in 1 .. Len(m) : m[j] = m[k] => j = k }

\* getRecommendedPaymentMethod is called with any capabilities
InitRecommend ==
  /\ PaymentIdle
  /\ dt = NoDetector /\ mw = NoMiddleware /\ cr = NoRequirementsCall
  /\ \E m \in MethodLists :
       rec = [pc |-> "called", capabilities |-> [supportedMethods |-> m], answer |-> "pending"]

\* token-detection.ts 596-609: the call returns
Recommend ==
  /\ rec.pc = "called"
  /\ rec' = [rec EXCEPT !.pc = "done", !.answer = getRecommendedPaymentMethod(rec.capabilities)]
  /\ UNCHANGED <<rest, req, rq, now, balance, nonce, txs, dt, mw, cr>>

NextRecommend ==
  \/ Recommend

SpecRecommend == InitRecommend /\ [][NextRecommend]_vars

\* what this.facilitator.verify may answer to X402Server.verify: valid with a
\* payer, valid without one, invalid with or without a reason, an exception
VerifyAnswers ==
  { Valid(Owner), Valid(Mallory), Valid(Undefined), Valid(""),
    Invalid("insufficient_funds", Owner), Invalid(Undefined, Undefined), Invalid("", Owner),
    Threw(RpcError) }

\* what this.facilitator.settle may answer to X402Server.settle
SettleAnswers ==
  { SettleResponse(TRUE, Undefined, HashOf(1), WalletNetwork, Owner),
    SettleResponse(TRUE, Undefined, HashOf(2), Undefined, Owner),
    SettleResponse(TRUE, Undefined, NoTx, WalletNetwork, Owner),
    SettleResponse(FALSE, "transaction_failed", HashOf(1), WalletNetwork, Owner),
    SettleResponse(FALSE, Undefined, NoTx, WalletNetwork, Owner),
    SettleThrew("broadcast rejected") }

\* server.ts 280-309 and 192-202: the facilitator answers X402Server.verify
FacilitatorVerifyAnswers(i) ==
  /\ rq[i].pc = "v_start" /\ rq[i].phase = "verify"
  /\ \E out \in VerifyAnswers : Step(i, ProcessAfterVerify(rq[i], out))
  /\ UNCHANGED <<rest, dt, mw, cr, rec, req, now, balance, nonce, txs>>

\* server.ts 325-355 and 202-218: the facilitator answers X402Server.settle
FacilitatorSettleAnswers(i) ==
  /\ rq[i].pc = "v_start" /\ rq[i].phase = "settle"
  /\ \E out \in SettleAnswers : Step(i, SettleReturns(rq[i], out))
  /\ UNCHANGED <<rest, dt, mw, cr, rec, req, now, balance, nonce, txs>>

\* one process call, any header
InitServer ==
  /\ \E c \in Calls :
       /\ req = c[1]
       /\ rq = [i \in Requests |-> IF i = "r1" THEN Call("process", c[2]) ELSE Idle]
  /\ now = 0
  /\ balance = 0
  /\ nonce = 0
  /\ txs = <<>>
  /\ OthersIdle

NextServer ==
  \/ \E i \in Requests : Parse(i)
  \/ \E i \in Requests : FacilitatorVerifyAnswers(i)
  \/ \E i \in Requests : FacilitatorSettleAnswers(i)

\* the orchestrator alone, against a facilitator that may answer anything
SpecServer == InitServer /\ [][NextServer]_vars


(* ============================== claims ================================= *)
\* the payload of call i and its authorization
PayloadOf(i) == rq[i].header.payload
AuthOf(i) == rq[i].header.payload.payload.authorization

\* the verify runs call i has completed: what each returned and what it had read
VerifyRuns(i) ==
  (IF rq[i].verifyOut.kind # "none" THEN {[out |-> rq[i].verifyOut, obs |-> rq[i].obs1]} ELSE {})
    \cup (IF rq[i].valid.kind # "none" THEN {[out |-> rq[i].valid, obs |-> rq[i].obs]} ELSE {})

\* the transactions call i has submitted
TxsBy(i) == { k \in 1 .. Len(txs) : txs[k].by = i }

SpenderMatches(i) == getAddress(AuthOf(i).spender) = getAddress(req.payTo)

\* C1: in process, verify starts only after a successful parse, settle is
\* entered and a transaction is written only after verify succeeded for that
\* call, a call whose parse or verify failed never reaches settle, and every
\* transaction on the chain was written by a settle whose own verify passed.
C1_VerifyGatesSettle ==
  /\ \A i \in Requests :
       rq[i].mode = "process" =>
         /\ (rq[i].phase = "verify" \/ rq[i].verifyOut.kind # "none")
              => ParseError(rq[i].header) = "none"
         /\ (\/ rq[i].phase = "settle"
             \/ rq[i].pc \in {"s_write", "s_receipt"}
             \/ rq[i].settled.kind # "none"
             \/ rq[i].writes > 0
             \/ TxsBy(i) # {})
              => /\ ParseError(rq[i].header) = "none"
                 /\ rq[i].verifyOut.kind = "return"
                 /\ rq[i].verifyOut.isValid
                 /\ rq[i].verified.success
         /\ (rq[i].pc = "done" /\ ~rq[i].verified.success)
              => rq[i].settled.kind = "none" /\ rq[i].writes = 0 /\ TxsBy(i) = {}
  /\ \A k \in 1 .. Len(txs) :
       /\ rq[txs[k].by].valid.kind = "return"
       /\ rq[txs[k].by].valid.isValid
       /\ rq[txs[k].by].tx = k

\* a process call verified, settled and wrote its transaction
C1_Witness ==
  \E i \in Requests :
    /\ rq[i].mode = "process" /\ rq[i].pc = "done"
    /\ rq[i].result.success /\ TxsBy(i) # {}

\* C2: when settle's own verify fails after the orchestrator's verify had
\* succeeded (the balance fell, the deadline passed), settle answers with
\* the verifier's reason and an empty transaction and writes nothing; a
\* write happens only when the re-verification, made after the first
\* verification, found the balance and the deadline still good.
C2_SettleReverifies ==
  \A i \in Requests :
    /\ (rq[i].settled.kind # "none" /\ rq[i].valid.kind = "return" /\ ~rq[i].valid.isValid)
         => /\ rq[i].settled.kind = "return"
            /\ ~rq[i].settled.success
            /\ rq[i].settled.errorReason = rq[i].valid.invalidReason
            /\ rq[i].settled.transaction = NoTx
            /\ rq[i].writes = 0
            /\ TxsBy(i) = {}
    /\ (rq[i].writes > 0 \/ rq[i].pc \in {"s_write", "s_receipt"})
         => /\ rq[i].valid.isValid
            /\ rq[i].obs.bal >= req.maxAmountRequired
            /\ AuthOf(i).deadline >= rq[i].obs.now
            /\ (rq[i].mode = "process" => rq[i].obs.now >= rq[i].obs1.now)

\* the orchestrator's verify passed, then the balance fell and settle refused
C2_Witness ==
  \E i \in Requests :
    /\ rq[i].mode = "process" /\ rq[i].pc = "done"
    /\ rq[i].verified.success
    /\ rq[i].obs1.bal >= req.maxAmountRequired
    /\ rq[i].obs.bal # Unread /\ rq[i].obs.bal < req.maxAmountRequired
    /\ rq[i].settled.errorReason = "insufficient_funds"
    /\ rq[i].settled.transaction = NoTx

\* C3: a settle call writes one transaction when its re-verification passed
\* and none otherwise, and never a second one, whatever the submission or the
\* receipt answered.
C3_OneWritePerSettle ==
  \A i \in Requests :
    /\ rq[i].writes <= 1
    /\ Cardinality(TxsBy(i)) <= rq[i].writes
    /\ rq[i].settled.kind # "none"
         => rq[i].writes = (IF rq[i].valid.kind = "return" /\ rq[i].valid.isValid THEN 1 ELSE 0)
    /\ rq[i].pc \in {"parse", "s_start", "v_start", "v_domain", "v_sig", "v_bal", "s_write"}
         => rq[i].writes = 0

\* a settle whose transaction was mined and reverted has answered
\* transaction_failed, having written once
C3_Witness ==
  \E i \in Requests :
    /\ rq[i].pc = "done"
    /\ rq[i].settled.errorReason = "transaction_failed"
    /\ rq[i].writes = 1
    /\ txs[rq[i].tx].status = "reverted"

\* C4: at most one settlement transaction is submitted for one payload.
C4_OneTransactionPerPayload ==
  \A j, k \in 1 .. Len(txs) :
    (txs[j].signature = txs[k].signature /\ txs[j].payer = txs[k].payer) => j = k


\* the header carries a permit payload of the requirement's scheme
PermitCall(i) ==
  /\ rq[i].header.kind = "ok"
  /\ ~DiscriminatorFails(PayloadOf(i), req)

\* the payload of call i is a permit for the requirement: declared for its
\* network, signed by the owner over exactly the fields it carries, granted
\* to payTo, for the required amount
RoundTripPayload(i) ==
  /\ PermitCall(i)
  /\ PayloadOf(i).network = req.network
  /\ PayloadOf(i).payload.signature = Sign(AuthOf(i).owner, typedDataOf(PayloadOf(i), req))
  /\ SpenderMatches(i)
  /\ AuthOf(i).value = req.maxAmountRequired

\* C5: round trip. For a correctly signed permit matching the requirement,
\* a verify that read a time not after the deadline and a balance of at least
\* the required amount returns valid with the owner as payer; and a settle
\* whose transaction was executed before the deadline, on the signed nonce
\* and with the balance still there, returns success with the transaction's
\* hash, not empty, and the same payer (and process returns 200 with both).
C5_RoundTrip ==
  \A i \in Requests :
    RoundTripPayload(i) =>
      /\ \A run \in VerifyRuns(i) :
           (/\ run.obs.now # Unread
            /\ AuthOf(i).deadline >= run.obs.now
            /\ run.obs.bal >= req.maxAmountRequired)
             => run.out = Valid(AuthOf(i).owner)
      /\ (/\ rq[i].settled.kind = "return"
          /\ rq[i].tx # 0
          /\ txs[rq[i].tx].block.time # Unread
          /\ txs[rq[i].tx].block.time <= AuthOf(i).deadline
          /\ txs[rq[i].tx].block.balance >= AuthOf(i).value
          /\ txs[rq[i].tx].block.nonce = AuthOf(i).nonce)
           => /\ rq[i].settled.success
              /\ rq[i].settled.transaction = HashOf(rq[i].tx)
              /\ rq[i].settled.transaction # NoTx
              /\ rq[i].settled.payer = AuthOf(i).owner
              /\ rq[i].mode = "process"
                   => /\ rq[i].result.success /\ rq[i].result.status = 200
                      /\ rq[i].result.payer = AuthOf(i).owner
                      /\ rq[i].result.txHash = HashOf(rq[i].tx)

\* a correctly signed permit went through process: verified, then settled
C5_Witness ==
  \E i \in Requests :
    /\ RoundTripPayload(i) /\ rq[i].mode = "process" /\ rq[i].pc = "done"
    /\ rq[i].verifyOut = Valid(AuthOf(i).owner)
    /\ rq[i].settled.success /\ rq[i].settled.transaction # NoTx

\* C6 as claimed: a permit payload whose spender is not payTo is rejected
\* with invalid_spender_address by every verify run.
C6_AsClaimed ==
  \A i \in Requests :
    (PermitCall(i) /\ ~SpenderMatches(i)) =>
      \A run \in VerifyRuns(i) :
        run.out.kind = "return" => run.out.invalidReason = "invalid_spender_address"

\* C6 amended: a payload whose spender is not payTo (as addresses, whatever
\* the letter case) is never verified as valid and settle never writes a
\* transaction for it; the reason is invalid_spender_address once the
\* signature was found good and the deadline not passed, and that reason
\* is given to no payload whose spender is payTo.
C6_SpenderMustBePayTo ==
  \A i \in Requests :
    /\ (rq[i].header.kind = "ok" /\ ~SpenderMatches(i)) =>
         /\ \A run \in VerifyRuns(i) :
              /\ ~run.out.isValid
              /\ (run.obs.sig = "true" /\ AuthOf(i).deadline >= run.obs.now)
                   => run.out = Invalid("invalid_spender_address", AuthOf(i).owner)
         /\ rq[i].writes = 0
         /\ TxsBy(i) = {}
         /\ ~rq[i].verified.success
    /\ (rq[i].header.kind = "ok" /\ SpenderMatches(i)) =>
         \A run \in VerifyRuns(i) : run.out.invalidReason # "invalid_spender_address"

\* a validly signed, unexpired permit granted to another spender was rejected
C6_Witness ==
  \E i \in Requests :
    /\ PermitCall(i) /\ AuthOf(i).spender = OtherSpender
    /\ rq[i].verifyOut = Invalid("invalid_spender_address", AuthOf(i).owner)
    /\ rq[i].obs1.sig = "true"

\* the checks before the amount checks passed in this verify run of call i
EarlierChecksPass(i, run) ==
  /\ PermitCall(i)
  /\ run.obs.sig = "true"
  /\ AuthOf(i).deadline >= run.obs.now
  /\ SpenderMatches(i)
  /\ run.obs.bal # Unread

C8_Insolvency ==
  \A i \in Requests : \A run \in VerifyRuns(i) :
    EarlierChecksPass(i, run) =>
      /\ run.obs.bal < req.maxAmountRequired
           => run.out = Invalid("insufficient_funds", AuthOf(i).owner)
      /\ (run.obs.bal = req.maxAmountRequired /\ AuthOf(i).value >= req.maxAmountRequired)
           => run.out = Valid(AuthOf(i).owner)

\* an otherwise valid permit of an owner without the funds was rejected
C8_Witness ==
  \E i \in Requests : \E run \in VerifyRuns(i) :
    /\ EarlierChecksPass(i, run)
    /\ AuthOf(i).value >= req.maxAmountRequired
    /\ run.obs.bal < req.maxAmountRequired
    /\ run.out.invalidReason = "insufficient_funds"

\* C9 as claimed: a deadline in the past is rejected with permit_expired,
\* whether or not the signature is the owner's.
C9_AsClaimed ==
  \A i \in Requests : \A run \in VerifyRuns(i) :
    (PermitCall(i) /\ run.obs.now # Unread /\ AuthOf(i).deadline < run.obs.now)
      => run.out = Invalid("permit_expired", AuthOf(i).owner)

\* C9 amended: a deadline in the past is always rejected: with
\* permit_expired when the signature is the owner's, and with
\* invalid_permit_signature when it is not, the signature being checked
\* first.
C9_Expiry ==
  \A i \in Requests : \A run \in VerifyRuns(i) :
    (PermitCall(i) /\ run.obs.now # Unread /\ AuthOf(i).deadline < run.obs.now)
      => run.out = Invalid(IF run.obs.sig = "true" THEN "permit_expired"
                           ELSE "invalid_permit_signature", AuthOf(i).owner)

\* an expired permit with the owner's signature was rejected as expired
C9_Witness ==
  \E i \in Requests : \E run \in VerifyRuns(i) :
    /\ PermitCall(i) /\ run.obs.sig = "true"
    /\ AuthOf(i).deadline < run.obs.now
    /\ run.out.invalidReason = "permit_expired"

\* C10: a payload whose network is not the requirement's is never verified
\* as valid, by verify or by process.
C10_NetworkMustMatch ==
  \A i \in Requests :
    (rq[i].header.kind = "ok" /\ PayloadOf(i).network # req.network)
      => /\ \A run \in VerifyRuns(i) : ~run.out.isValid
         /\ ~rq[i].verified.success


\* C11: a chain read that fails during verify is reported as invalid_network:
\* no verify run ends with an exception.
C11_ReadFailureIsInvalidNetwork ==
  \A i \in Requests : \A run \in VerifyRuns(i) : run.out.kind = "return"

\* C12: a submission that writeContract rejected is answered by settle with
\* the reason broadcast_failed, and process returns that error.
C12_BroadcastFailed ==
  \A i \in Requests :
    (rq[i].settled.kind # "none" /\ rq[i].writes = 1 /\ rq[i].tx = 0)
      => /\ rq[i].settled.kind = "return"
         /\ rq[i].settled.errorReason = "broadcast_failed"
         /\ rq[i].mode = "process" => rq[i].result.error = "broadcast_failed"

\* C13: a settle whose transaction was mined with a status other than
\* success returns success=false, transaction_failed, the hash of the
\* submitted transaction and the payer; it returns success=true only when
\* its transaction was mined with status success.
C13_ReceiptFailure ==
  \A i \in Requests :
    /\ (rq[i].settled.kind = "return" /\ rq[i].tx # 0 /\ txs[rq[i].tx].status # "success")
         => rq[i].settled = SettleResponse(FALSE, "transaction_failed", HashOf(rq[i].tx),
                                           PayloadOf(i).network, AuthOf(i).owner)
    /\ rq[i].settled.success
         => /\ rq[i].tx # 0
            /\ txs[rq[i].tx].status = "success"
            /\ rq[i].settled.transaction = HashOf(rq[i].tx)

\* a settle answered transaction_failed with the hash of its reverted
\* transaction and the payer
C13_Witness ==
  \E i \in Requests :
    /\ rq[i].settled.kind = "return" /\ ~rq[i].settled.success
    /\ rq[i].tx # 0 /\ txs[rq[i].tx].status = "reverted"
    /\ rq[i].settled.transaction = HashOf(rq[i].tx)
    /\ rq[i].settled.payer = Owner

\* C14 as claimed: a second settle of a payload that was settled with
\* success answers transaction_failed.
C14_AsClaimed ==
  (rq["r2"].pc # "idle" /\ rq["r2"].settled.kind = "return")
    => rq["r2"].settled.errorReason = "transaction_failed"

\* C14 amended: a second attempt with a payload that was settled with
\* success never succeeds and no transaction of it does; when its
\* re-verification passes, the transaction it submits reverts and an answer
\* of settle is transaction_failed with that transaction's hash; when its
\* re-verification fails (the balance no longer covers the amount, the
\* deadline has passed) the answer carries the verifier's reason.
C14_ReplayFails ==
  LET r == rq["r2"] IN
  r.pc # "idle" =>
    /\ ~r.settled.success /\ ~r.result.success
    /\ \A k \in TxsBy("r2") : txs[k].status # "success"
    /\ (r.settled.kind = "return" /\ r.tx # 0)
         => r.settled = SettleResponse(FALSE, "transaction_failed", HashOf(r.tx),
                                       PayloadOf("r2").network, AuthOf("r2").owner)
    /\ (r.settled.kind = "return" /\ r.tx = 0)
         => /\ r.valid.kind = "return" /\ ~r.valid.isValid
            /\ r.settled.errorReason = r.valid.invalidReason

\* the replayed permit passed re-verification and its transaction reverted
\* on the consumed nonce alone: balance and deadline were still good
C14_Witness ==
  LET r == rq["r2"] IN
  /\ r.pc = "done" /\ r.tx # 0
  /\ r.settled.errorReason = "transaction_failed"
  /\ txs[r.tx].status = "reverted"
  /\ txs[r.tx].block.nonce = AuthOf("r2").nonce + 1
  /\ txs[r.tx].block.balance >= AuthOf("r2").value
  /\ txs[r.tx].block.time <= AuthOf("r2").deadline

\* C15: every failed process result has status 402 and an accepts list that
\* holds exactly the requirement process was called with, whichever stage
\* failed.
C15_FailureCarriesRequirement ==
  \A i \in Requests :
    (rq[i].mode = "process" /\ rq[i].pc = "done" /\ ~rq[i].result.success)
      => /\ rq[i].result.status = 402
         /\ rq[i].result.accepts = <<req>>

\* process failed at the settlement stage and returned the requirement
C15_Witness ==
  \E i \in Requests :
    /\ rq[i].mode = "process" /\ rq[i].pc = "done"
    /\ rq[i].verified.success /\ rq[i].settled.kind # "none"
    /\ rq[i].result.status = 402
    /\ rq[i].result.accepts = <<req>>

\* the reason codes of the closed set
ReasonCodes ==
  { "invalid_payment_header", "missing_payment_header", "unsupported_scheme",
    "invalid_network", "scheme_network_mismatch", "invalid_permit_signature",
    "permit_expired", "invalid_spender_address", "witness_recipient_mismatch",
    "invalid_exact_payload_value", "insufficient_funds", "broadcast_failed",
    "transaction_failed" }

\* C16: the error of a failed process result is a reason code of the closed
\* set: the orchestrator produces no error string of its own.
C16_ErrorIsReasonCode ==
  \A i \in Requests :
    (rq[i].mode = "process" /\ rq[i].pc = "done" /\ ~rq[i].result.success)
      => rq[i].result.error \in ReasonCodes

\* process failed at the verification stage, on an answer of verify
FailedAtVerification(i) ==
  /\ rq[i].mode = "process" /\ rq[i].pc = "done"
  /\ rq[i].verifyOut.kind = "return" /\ ~rq[i].verified.success

\* process failed at the settlement stage, on an answer of settle
FailedAtSettlement(i) ==
  /\ rq[i].mode = "process" /\ rq[i].pc = "done"
  /\ rq[i].verified.success /\ rq[i].settled.kind = "return" /\ ~rq[i].result.success

\* C17: no result process returns for a failure of the settlement stage is
\* identical to a result it returns for a failure of the verification stage.
C17_StagesDistinguished ==
  \A i, j \in Requests :
    (FailedAtVerification(i) /\ FailedAtSettlement(j)) => rq[i].result # rq[j].result

\* the header is present but is not Base64, not JSON or not a payload
Malformed(i) == rq[i].header.kind \in {"garbage", "badschema"}

\* C18: a present but malformed header makes process fail at once with the
\* error invalid_payment_header, and the facilitator is never called.
C18_MalformedHeader ==
  \A i \in Requests :
    (rq[i].mode = "process" /\ Malformed(i)) =>
      /\ rq[i].pc \in {"parse", "done"}
      /\ rq[i].verifyOut.kind = "none" /\ rq[i].settled.kind = "none"
      /\ rq[i].pc = "done" => rq[i].result = get402Response(req, "invalid_payment_header")

\* C19: an absent header (undefined or the empty string) makes process fail
\* with missing_payment_header and status 402, and neither verify nor settle
\* of the facilitator is called.
C19_MissingHeader ==
  \A i \in Requests :
    (rq[i].mode = "process" /\ rq[i].header.kind \in {"absent", "empty"}) =>
      /\ rq[i].pc \in {"parse", "done"}
      /\ rq[i].phase = "none"
      /\ rq[i].verifyOut.kind = "none" /\ rq[i].valid.kind = "none"
      /\ rq[i].settled.kind = "none" /\ rq[i].writes = 0 /\ TxsBy(i) = {}
      /\ rq[i].pc = "done"
           => /\ rq[i].result = get402Response(req, "missing_payment_header")
              /\ rq[i].result.status = 402

\* process was called with the empty string as header and has answered
C19_Witness ==
  \E i \in Requests :
    /\ rq[i].mode = "process" /\ rq[i].header.kind = "empty" /\ rq[i].pc = "done"
    /\ rq[i].result.error = "missing_payment_header"

\* C20: process returns success, with status 200, only when verify and
\* settle both succeeded, with the payer verification reported and the
\* transaction hash settlement reported, neither empty; a facilitator success
\* without payer or without transaction hash ends as a failure.
C20_SuccessCarriesPayerAndHash ==
  \A i \in Requests :
    (rq[i].mode = "process" /\ rq[i].pc = "done") =>
      /\ rq[i].result.success <=> rq[i].result.status = 200
      /\ rq[i].result.success
           => /\ rq[i].verifyOut.kind = "return" /\ rq[i].verifyOut.isValid
              /\ rq[i].settled.kind = "return" /\ rq[i].settled.success
              /\ ~Falsy(rq[i].result.payer)
              /\ rq[i].result.payer = rq[i].verifyOut.payer
              /\ rq[i].result.txHash # NoTx
              /\ rq[i].result.txHash = rq[i].settled.transaction
      /\ (rq[i].verifyOut.isValid /\ Falsy(rq[i].verifyOut.payer))
           => /\ rq[i].result.status = 402
              /\ rq[i].settled.kind = "none"
      /\ (rq[i].settled.success /\ rq[i].settled.transaction = NoTx)
           => rq[i].result.status = 402

\* the facilitator verified and reported a settlement without a transaction
\* hash, and process answered 402
C20_Witness ==
  \E i \in Requests :
    /\ rq[i].mode = "process" /\ rq[i].pc = "done"
    /\ rq[i].verifyOut.isValid /\ ~Falsy(rq[i].verifyOut.payer)
    /\ rq[i].settled.success /\ rq[i].settled.transaction = NoTx
    /\ ~rq[i].result.success

\* C21: process never throws: an exception of the facilitator during
\* verification or settlement ends the call with a failed result of status
\* 402 that carries the exception's message, and every finished call has a
\* result of status 200 or 402.
C21_ExceptionsRecovered ==
  \A i \in Requests :
    rq[i].mode = "process" =>
      /\ rq[i].verifyOut.kind = "throw"
           => /\ rq[i].pc = "done"
              /\ rq[i].settled.kind = "none"
              /\ rq[i].result = get402Response(req, rq[i].verifyOut.invalidReason)
      /\ rq[i].settled.kind = "throw"
           => /\ rq[i].pc = "done"
              /\ rq[i].result = get402Response(req, rq[i].settled.errorReason)
      /\ rq[i].pc = "done" => rq[i].result.status \in {200, 402}

\* the facilitator's settle threw inside process, which answered 402
C21_Witness ==
  \E i \in Requests :
    /\ rq[i].mode = "process" /\ rq[i].pc = "done"
    /\ rq[i].settled.kind = "throw"
    /\ rq[i].result.status = 402 /\ ~rq[i].result.success

\* what a verify run of call i that read `obs` answers when its checks are
\* taken in the order discriminator, domain, signature, deadline, spender,
\* amounts, the first failing one giving the reason
FirstFailure(i, obs) ==
  LET p == PayloadOf(i)
      a == AuthOf(i)
  IN IF DiscriminatorFails(p, req) THEN Invalid("unsupported_scheme", Undefined)
     ELSE IF ~NetworkKnown(p.network) \/ obs.sig = "unread"
          THEN Invalid("invalid_network", a.owner)
     ELSE IF ~verifyTypedData(a.owner, typedDataOf(p, req), p.payload.signature)
          THEN Invalid("invalid_permit_signature", a.owner)
     ELSE IF a.deadline < obs.now THEN Invalid("permit_expired", a.owner)
     ELSE IF ~SpenderMatches(i) THEN Invalid("invalid_spender_address", a.owner)
     ELSE IF obs.bal < req.maxAmountRequired THEN Invalid("insufficient_funds", a.owner)
     ELSE IF a.value < req.maxAmountRequired
          THEN Invalid("invalid_exact_evm_payload_authorization_value", a.owner)
     ELSE Valid(a.owner)

\* C29: verify checks in the order discriminator, domain reconstruction,
\* signature, deadline, spender, amounts: every answer it returns is the
\* rejection of the earliest failing step, and valid only when none fails.
\* A step past the domain is reached only when the domain was obtained, and
\* the amounts are judged on a balance that was read.
C29_CheckOrder ==
  \A i \in Requests : \A run \in VerifyRuns(i) :
    (rq[i].header.kind = "ok" /\ run.out.kind = "return") =>
      /\ run.out = FirstFailure(i, run.obs)
      /\ (run.obs.sig = "unread" /\ ~DiscriminatorFails(PayloadOf(i), req)
            /\ NetworkKnown(PayloadOf(i).network))
           => req.extra.name = Undefined
      /\ run.out.isValid
           => /\ run.obs.sig = "true" /\ run.obs.bal # Unread
              /\ AuthOf(i).deadline >= run.obs.now

\* a permit with a forged signature, another spender and too small a value
\* was rejected for its signature
C29_Witness ==
  \E i \in Requests : \E run \in VerifyRuns(i) :
    /\ PermitCall(i)
    /\ run.obs.sig = "false"
    /\ ~SpenderMatches(i)
    /\ AuthOf(i).value < req.maxAmountRequired
    /\ run.out = Invalid("invalid_permit_signature", AuthOf(i).owner)

\* C30: expiry boundary. With the owner's signature, verify answers
\* permit_expired exactly when the deadline is strictly less than the second
\* it read; a deadline equal to that second is not expired.
C30_ExpiryBoundary ==
  \A i \in Requests : \A run \in VerifyRuns(i) :
    (PermitCall(i) /\ run.out.kind = "return" /\ run.obs.sig = "true") =>
      /\ run.out.invalidReason = "permit_expired" <=> AuthOf(i).deadline < run.obs.now
      /\ AuthOf(i).deadline = run.obs.now => run.out.invalidReason # "permit_expired"

\* a permit verified in the very second of its deadline, after the clock
\* had moved, was found valid
C30_Witness ==
  \E i \in Requests : \E run \in VerifyRuns(i) :
    /\ PermitCall(i) /\ run.obs.sig = "true"
    /\ run.obs.now > 0 /\ AuthOf(i).deadline = run.obs.now
    /\ run.out = Valid(AuthOf(i).owner)

\* the methods a list holds
MethodsIn(m) == { m[k] : k \in 1 .. Len(m) }

CalledAfter(i, j) ==
  /\ dt.callers[i].pc = "done" /\ dt.callers[i].result.kind = "return"
  /\ dt.callers[j].pc # "idle"
  /\ dt.callers[i].doneSeq < dt.callers[j].callSeq
  /\ dt.callers[i].doneEpoch = dt.callers[j].callEpoch
  /\ toLowerCase(dt.callers[i].addr) = toLowerCase(dt.callers[j].addr)

CalledDuring(i, j) ==
  /\ dt.callers[i].lookup = "start" /\ dt.callers[j].pc # "idle"
  /\ dt.callers[i].callSeq < dt.callers[j].callSeq
  /\ dt.callers[i].pc = "done" => dt.callers[j].callSeq < dt.callers[i].doneSeq
  /\ toLowerCase(dt.callers[i].addr) = toLowerCase(dt.callers[j].addr)

ScanTasks == {"eip3009", "permit"}

\* every strategy this check tried failed with an error
AllStrategiesErrored(t) ==
  /\ t.tried = Strategies
  /\ \A k \in 1 .. Len(t.outcomes) : t.outcomes[k] = "error"

\* C25: detection never fails. Whatever reads error, each check ends with
\* true or false and detect returns TokenCapabilities; a capability whose
\* read of the token's code, of the implementation's code, or of all three
\* proxy strategies errored is reported as not supported, a capability is
\* reported only when its selector was found in code that was read, and
\* the recommendation is never a method reported as not supported.
C25_DetectionNeverFails ==
  /\ \A n \in TaskNames :
       LET t == dt.tasks[n] IN
       /\ t.result \in {"pending", "true", "false"}
       /\ t.pc = "done" <=> t.result # "pending"
       /\ (t.direct = "error" \/ t.implScan = "error" \/ AllStrategiesErrored(t))
            => t.result = "false"
       /\ t.result = "true" => (t.direct = "found" \/ t.implScan = "found")
  /\ \A c \in Callers :
       dt.callers[c].pc = "done" =>
         LET caps == dt.callers[c].result
             answer == getRecommendedPaymentMethod(caps)
         IN /\ caps.kind = "return"
            /\ caps.details.hasEIP3009 <=> dt.tasks["eip3009"].result = "true"
            /\ caps.details.hasPermit <=> dt.tasks["permit"].result = "true"
            /\ caps.details.hasPermit2Approval <=> dt.tasks["permit2"].result = "true"
            /\ answer = "eip3009" => caps.details.hasEIP3009
            /\ answer = "permit" => caps.details.hasPermit
            /\ answer = "permit2" => caps.details.hasPermit2Approval
            /\ (\A n \in TaskNames : dt.tasks[n].direct = "error") => answer = "null"

\* detect returned although the read of an implementation's code failed:
\* that capability is not supported, Permit2 is
C25_Witness ==
  \E c \in Callers : \E n \in ScanTasks :
    /\ dt.callers[c].pc = "done"
    /\ dt.tasks[n].implScan = "error"
    /\ dt.callers[c].result.kind = "return"
    /\ ~Includes(dt.callers[c].result.supportedMethods, n)
    /\ Includes(dt.callers[c].result.supportedMethods, "permit2")

\* C26 as claimed: proxy resolution is attempted only when no capability was
\* found directly in the token's own bytecode.
C26_AsClaimed ==
  \A n \in ScanTasks :
    dt.tasks[n].tried # <<>> => \A u \in ScanTasks : dt.tasks[u].direct # "found"

\* C26 amended: a check resolves the proxy only when its own selectors were
\* not found in the token's code (the other check may have found its own
\* there); the strategies are tried in the order EIP-1967 slot, EIP-1822
\* slot, implementation(), the next one only when the one before errored or
\* yielded the zero address; the first address other than zero is the
\* implementation, and there is none only when all three failed.
C26_ProxyResolution ==
  \A n \in ScanTasks :
    LET t == dt.tasks[n]
        len == Len(t.tried)
    IN /\ len <= Len(Strategies) /\ Len(t.outcomes) = len
       /\ \A k \in 1 .. len : t.tried[k] = Strategies[k]
       /\ len > 0 => t.direct = "absent"
       /\ \A k \in 1 .. len : t.outcomes[k] \in {"error", Yield(dt.facts, t.tried[k])}
       /\ \A k \in 1 .. len - 1 : t.outcomes[k] \in {"error", ZeroAddress}
       /\ t.impl # NoImpl
            => /\ len > 0
               /\ t.impl = t.outcomes[len]
               /\ t.impl \notin {"error", ZeroAddress}
       /\ (len > 0 /\ t.outcomes[len] \notin {"error", ZeroAddress}) => t.impl = t.outcomes[len]
       /\ (t.pc = "done" /\ len > 0 /\ t.impl = NoImpl)
            => /\ t.tried = Strategies
               /\ \A k \in 1 .. len : t.outcomes[k] \in {"error", ZeroAddress}

\* the EIP-1967 read errored, the EIP-1822 slot was zero, and implementation()
\* gave the implementation
C26_Witness ==
  \E n \in ScanTasks :
    /\ dt.tasks[n].tried = Strategies
    /\ dt.tasks[n].outcomes = <<"error", ZeroAddress, ImplC>>
    /\ dt.tasks[n].impl = ImplC

\* C27: createRequirements with autoDetect false never invokes the detector;
\* with paymentType unset or 'auto' it ends in an error (the fast-mode error
\* once the network is known) and no requirement; with a pinned paymentType
\* and the network known it returns a requirement of that type.
FastModeCall == cr.pc # "none" /\ cr.pc # "idle" /\ cr.config.autoDetect = "false"
Unpinned == Falsy(cr.config.paymentType) \/ cr.config.paymentType = "auto"
DetectorUntouched ==
  /\ cr.detectorCalls = 0
  /\ dt.reads = 0 /\ ~dt.running
  /\ \A c \in Callers : dt.callers[c].pc = "idle"
C27_FastMode ==
  FastModeCall =>
    /\ DetectorUntouched
    /\ cr.pc \in {"network", "done"}
    /\ cr.pc = "done" /\ Unpinned =>
         /\ cr.outcome.kind = "throw"
         /\ cr.network # Undefined => cr.outcome.message = MustSpecifyPaymentType
    /\ cr.pc = "done" /\ ~Unpinned =>
         /\ cr.outcome.kind = "return" <=> cr.network # Undefined
         /\ cr.outcome.kind = "return" =>
              cr.outcome.requirements.paymentType = cr.config.paymentType

C27_Witness ==
  /\ FastModeCall /\ cr.pc = "done"
  /\ cr.config.paymentType = "auto"
  /\ cr.network = ChainNetworkName
  /\ cr.outcome = [kind |-> "throw", message |-> MustSpecifyPaymentType]
  /\ DetectorUntouched

\* C28: the middleware calls next, once, only after process has reported a
\* verified and settled payment, with req.x402 holding the payer and the
\* transaction hash of that report; when process reports a failed payment the
\* 402 is sent or on402 is called, and next is not called; no request has
\* both next called and a 402 or 500 response sent.
ProcessReport == rq["r1"].result
C28_NextOnlyAfterPayment ==
  mw.pc # "none" =>
    /\ mw.nextCalls <= 1
    /\ mw.nextCalls > 0 =>
         /\ mw.processReturned /\ rq["r1"].pc = "done"
         /\ ProcessReport.success
         /\ rq["r1"].verifyOut.kind = "return" /\ rq["r1"].verifyOut.isValid
         /\ rq["r1"].settled.kind = "return" /\ rq["r1"].settled.success
         /\ mw.x402 = [payer |-> ProcessReport.payer, txHash |-> ProcessReport.txHash]
         /\ ~Falsy(mw.x402.payer) /\ mw.x402.txHash # NoTx
    /\ (mw.processReturned /\ ~ProcessReport.success) =>
         /\ mw.nextCalls = 0
         /\ mw.x402 = NoX402
         /\ IF mw.options.on402 THEN mw.on402Calls = 1 /\ ~Includes(mw.sent, 402)
            ELSE mw.sent = <<402>> /\ mw.on402Calls = 0
    /\ ~(mw.nextCalls > 0 /\ mw.sent # <<>>)

\* the request of a payer who paid went through
C28_Witness ==
  /\ mw.pc = "done" /\ mw.nextCalls = 1
  /\ mw.x402.payer = Owner /\ mw.x402.txHash # NoTx
  /\ mw.sent = <<>>
  /\ \E k \in 1 .. Len(txs) : txs[k].status = "success"

\* a failed payment was answered with 402
C28_WitnessFailed ==
  /\ mw.pc = "done" /\ mw.processReturned /\ ~ProcessReport.success
  /\ mw.sent = <<402>> /\ mw.nextCalls = 0

\* C31: when every read a check made was answered, eip3009 and permit are
\* reported exactly when one of the capability's selectors occurs in the
\* token's own bytecode, or none occurs there and the first proxy strategy
\* that yields an address other than zero yields one whose bytecode holds
\* one of them; a token without code reports neither; permit2 and
\* permit2-witness are reported, together, exactly when there is code at
\* the Permit2 address, whatever the token is.
SelectorsOf(n) == IF n = "eip3009" THEN EIP3009_SIGNATURES ELSE {EIP2612_PERMIT}
Occurs(code, selectors) ==
  code # NoCode /\ \E sel \in selectors : slice2(sel) \in code
Resolving(f) == { k \in 1 .. Len(Strategies) : Yield(f, Strategies[k]) # ZeroAddress }
ImplementationOf(f) ==
  IF Resolving(f) = {} THEN NoImpl
  ELSE Yield(f, Strategies[CHOOSE k \in Resolving(f) : \A j \in Resolving(f) : k <= j])
Present(f, selectors) ==
  \/ Occurs(f.code, selectors)
  \/ /\ f.code # NoCode /\ ~Occurs(f.code, selectors)
     /\ ImplementationOf(f) # NoImpl
     /\ Occurs(getBytecode(f, ImplementationOf(f)), selectors)
ReadsAnswered(t) ==
  /\ t.direct # "error" /\ t.implScan # "error"
  /\ \A k \in 1 .. Len(t.outcomes) : t.outcomes[k] # "error"
C31_CapabilitiesFollowBytecode ==
  \A c \in Callers :
    dt.callers[c].pc = "done" =>
      LET caps == dt.callers[c].result
          f == dt.facts
      IN /\ \A n \in ScanTasks :
              ReadsAnswered(dt.tasks[n]) =>
                (Includes(caps.supportedMethods, n) <=> Present(f, SelectorsOf(n)))
         /\ f.code = NoCode => \A n \in ScanTasks : ~Includes(caps.supportedMethods, n)
         /\ Includes(caps.supportedMethods, "permit2")
              <=> Includes(caps.supportedMethods, "permit2-witness")
         /\ ReadsAnswered(dt.tasks["permit2"]) =>
              (Includes(caps.supportedMethods, "permit2") <=> f.permit2)
         /\ Includes(caps.supportedMethods, "permit2") => f.permit2

\* a proxy without the selectors in its own code, whose implementation has
\* them, on a chain without Permit2
C31_Witness ==
  \E c \in Callers :
    /\ dt.callers[c].pc = "done"
    /\ dt.facts.code = {} /\ ~dt.facts.permit2
    /\ dt.tasks["permit"].impl = ImplA /\ dt.tasks["permit"].implScan = "found"
    /\ dt.callers[c].result.supportedMethods = <<"eip3009", "permit">>

\* an address without code, on a chain where Permit2 is deployed
C31_WitnessPermit2 ==
  \E c \in Callers :
    /\ dt.callers[c].pc = "done"
    /\ dt.facts.code = NoCode
    /\ dt.callers[c].result.supportedMethods = <<"permit2", "permit2-witness">>

\* C32: createRequirements with auto-detection on. With paymentType unset or
\* 'auto' a returned requirement carries the method recommended for what
\* the detector holds for the token, and with nothing recommended the call
\* throws and returns no requirement; a pinned paymentType is returned as
\* it is, listed by the detection or not; payTo is the facilitator's
\* recipientAddress in every requirement returned.
AutoDetectCall == cr.pc = "done" /\ cr.config.autoDetect # "false"
Detected == dt.cache[AssetLower]
C32_WitnessPinned ==
  /\ AutoDetectCall /\ cr.config.paymentType = "eip3009"
  /\ Detected.kind = "return" /\ Detected.supportedMethods = <<"permit">>
  /\ cr.outcome.kind = "return" /\ cr.outcome.requirements.paymentType = "eip3009"

\* permit is recommended and returned
C32_WitnessRecommended ==
  /\ AutoDetectCall /\ Unpinned
  /\ Detected.kind = "return" /\ Detected.supportedMethods = <<"permit", "permit2", "permit2-witness">>
  /\ cr.outcome.kind = "return" /\ cr.outcome.requirements.paymentType = "permit"

\* C33: in the schema-based X402Server the initialized flag is true only
\* once an initialize has returned success, which takes a valid schema and,
\* in the later version, a configuration check that passed; verifyPayment
\* and settle call the facilitator only when an initialize had returned
\* success before the call, and a call made while the flag is false returns
\* the 'Server not initialized' failure without calling the facilitator.
C33_InitializedGuard ==
  sv.pc # "none" =>
    /\ sv.initialized <=> sv.succeeded
    /\ \A k \in Initializers :
         /\ sv.inits[k].result = "success"
              => /\ sv.schemaValid /\ sv.initialized
                 /\ sv.version = "later" => sv.inits[k].check = "passed"
         /\ sv.inits[k].pc \in {"tokenInfo", "check"} => sv.version = "later"
    /\ ~sv.schemaValid => ~sv.initialized
    /\ \A o \in PaymentOps :
         /\ sv.ops[o].facilitatorCalled => sv.ops[o].succeededAtCall
         /\ (sv.ops[o].pc # "idle" /\ ~sv.ops[o].initializedAtCall)
              => /\ sv.ops[o].pc = "done"
                 /\ ~sv.ops[o].facilitatorCalled
                 /\ ~sv.ops[o].success /\ sv.ops[o].error = NotInitialized

\* settle was refused before any initialize had succeeded; one has
\* succeeded since, and verifyPayment went to the facilitator
C33_Witness ==
  /\ sv.pc # "none" /\ sv.version = "later"
  /\ sv.ops["settle"].pc = "done" /\ sv.ops["settle"].error = NotInitialized
  /\ sv.inits["i1"].result = "success" /\ sv.inits["i2"].pc = "idle"
  /\ sv.ops["verifyPayment"].facilitatorCalled

\* C34: parsePaymentHeader always returns; it succeeds only if the payload's
\* scheme and network are the requirement's, its authorization.value, when
\* there is one, is maxAmountRequired, and its authorization.to, when there
\* is one, is payTo or extra.relayer up to case; every failure carries the
\* server's requirements as data and an error.
ValuePresent(p) == p.hasPayload /\ Truthy(p.value)
ToPresent(p) == p.hasPayload /\ Truthy(p.to)
C34_ParseAgreesOrFails ==
  sv.pc = "parsed" =>
    LET p == sv.header.payload
        r == sv.requirements
    IN /\ sv.result.kind = "return"
       /\ sv.result.success =>
            /\ sv.header.kind = "object"
            /\ p.scheme = r.scheme /\ p.network = r.network
            /\ ValuePresent(p) => p.value.kind = "digits" /\ p.value.n = r.maxAmountRequired
            /\ ToPresent(p) =>
                 /\ p.to.kind = "string"
                 /\ \/ toLowerCase(p.to.s) = toLowerCase(r.payTo)
                    \/ /\ r.extra.relayer # Undefined
                       /\ toLowerCase(p.to.s) = toLowerCase(r.extra.relayer)
       /\ ~sv.result.success => sv.result.data = r /\ ~Falsy(sv.result.error)

\* C35: the configuration an X402PaymentSchema holds always passes the
\* schema validation, so that verify() does not throw, and a set that threw
\* left the configuration as it was before the call.
C35_ConfigurationStaysValid ==
  ps.pc = "ready" =>
    /\ SchemaAccepts(ps.config)
    /\ (ps.last.op = "verify") => ps.last.kind = "return"
    /\ (ps.last.op = "set" /\ ps.last.kind = "throw") => ps.config = ps.last.before

\* C36: in the auto-refund server at most one refund transfer is submitted
\* for a payment record, whatever the interleaving of the runs of
\* verifyPendingPayments, and a refund is submitted only for a record that
\* was verified and whose refund_status is 'pending' when it is submitted.
C36_RefundedAtMostOnce ==
  ar.pc # "none" =>
    /\ \A id \in PaymentIds :
         /\ ar.payments[id].transfers <= 1
         /\ ar.payments[id].transfers > 0 => ar.payments[id].verified
    /\ \A r \in Runs :
         ar.runs[r].pc \in {"write", "receipt"} => ar.runs[r].statusAtCall = "pending"

\* C37: the permit resource server answers 200 with the resource only when
\* the facilitator reported a valid verification and a successful
\* settlement; a request whose settlement reported success=false does not
\* get the resource.
C37_ResourceOnlyWhenSettled ==
  \A i \in ResourceRequests :
    /\ (pr[i].status = 200 \/ pr[i].resource)
         => pr[i].verification = "valid" /\ pr[i].settlement = "success"
    /\ pr[i].settlement = "failure" => ~pr[i].resource

====
